---- MODULE Spec2Model ----
(***************************************************************************)
(* Macro-trigger core of hell_divers_macro: the event debouncer, the       *)
(* hotkey registry, the trigger dispatcher, the macro player and the       *)
(* progress notifier.                                                      *)
(*                                                                         *)
(* The repository holds the core twice: as module-level functions plus a   *)
(* MacroManager class in main.py (the running application), and as the     *)
(* self-contained class macro_manager.MacroManager.  The variable impl     *)
(* says which of the two a behaviour runs; it never changes.               *)
(*                                                                         *)
(* Strings on which the code computes (lower, strip, startswith) are       *)
(* sequences of one-character strings.  Python's None is the empty         *)
(* sequence; an optional value v is <<v>>.  Seconds are milliseconds.       *)
(***************************************************************************)
EXTENDS Integers, Sequences, FiniteSets, TLC

\* ------------------------------------------------------------------ bounds
MaxTriggers == 2      \* debounced presses handed to the dispatcher
MaxRegs     == 1      \* registry builds (register_macros / rebuild_listeners)
MaxFaults   == 1      \* simulated key injections that raise
MaxOps      == 3      \* registry operations of a session that edits its macros
MaxAppOps   == 4      \* registry operations of a session of the application window

\* ----------------------------------------------------------------- strings
LowerChar(c) ==
    CASE c = "N" -> "n"
      [] c = "U" -> "u"
      [] c = "M" -> "m"
      [] c = "H" -> "h"
      [] c = "D" -> "d"
      [] OTHER   -> c

\* str.lower()
Lower(s) == [i \in 1..Len(s) |-> LowerChar(s[i])]

\* str.startswith(p)
StartsWith(s, p) == Len(s) >= Len(p) /\ SubSeq(s, 1, Len(p)) = p

RECURSIVE LStrip(_)
LStrip(s) == IF s # <<>> /\ Head(s) = " " THEN LStrip(Tail(s)) ELSE s

RECURSIVE RStrip(_)
RStrip(s) ==
    IF s # <<>> /\ s[Len(s)] = " " THEN RStrip(SubSeq(s, 1, Len(s) - 1)) ELSE s

\* str.strip()
Strip(s) == RStrip(LStrip(s))

NumPrefix == <<"n", "u", "m", " ">>

h_num7 == <<"n", "u", "m", " ", "7">>
h_Num7 == <<"N", "u", "m", " ", "7">>
h_NUM7 == <<"N", "U", "M", " ", "7">>
h_num8 == <<"n", "u", "m", " ", "8">>
h_Num8 == <<"N", "u", "m", " ", "8">>
\* a key name the keyboard collaborator does not know
h_nun7 == <<"n", "u", "n", " ", "7">>

k_up    == <<"u", "p">>
k_down  == <<"d", "o", "w", "n">>
k_left  == <<"l", "e", "f", "t">>
k_right == <<"r", "i", "g", "h", "t">>
k_home  == <<"h", "o", "m", "e">>
k_7     == <<"7">>
k_8     == <<"8">>

ArrowNames == {k_up, k_down, k_left, k_right}

None == <<>>
Some(v) == <<v>>

\* the exceptions a registry operation can end with
IndexError == <<"IndexError", "Invalid macro index.">>
ValueErrorInUse(hotkey) == <<"ValueError", "already in use", hotkey>>
ValueErrorNotMapped(hotkey) == <<"ValueError", "not mapped to any known key", hotkey>>

\* ------------------------------------------------------------------ macros
\* models.Macro; delay and duration in milliseconds
Macro(hotkey, keys, delay, duration, name) ==
    [hotkey |-> hotkey, keys |-> keys, delay |-> delay,
     duration |-> duration, name |-> name]

\* ---------------------------------------------------------------- universe
Impls == {"main", "mm"}

\* the keyboard collaborator's scan code of a hotkey name (it lowercases names)
ScanOf(hotkey) ==
    CASE Lower(hotkey) = h_num7 -> 71
      [] OTHER                  -> 72

ScanCodes == {71, 72}

\* key events the global hook can deliver for a "down": scan code 71 is keypad 7
\* and Home, 72 is keypad 8 and the Up arrow; the keypad flag may be missing
DownEvents ==
    [scan_code : {71}, name : {k_7}, is_keypad : {"True", "None"}]
    \cup [scan_code : {71}, name : {k_home}, is_keypad : {"False", "None"}]
    \cup [scan_code : {72}, name : {k_8}, is_keypad : {"True", "None"}]
    \cup [scan_code : {72}, name : {k_up}, is_keypad : {"False", "None"}]

\* key events the global hook can deliver for an "up"
UpEvents ==
    [scan_code : {71}, name : {k_7}, is_keypad : {"True"}]
    \cup [scan_code : {71}, name : {k_home}, is_keypad : {"False"}]
    \cup [scan_code : {72}, name : {k_8}, is_keypad : {"True"}]
    \cup [scan_code : {72}, name : {k_up}, is_keypad : {"None"}]

\* one entry of a registration batch: slot -> Macro
Entry(slot, hotkey, keys, name) ==
    [slot |-> slot, macro |-> Macro(hotkey, keys, 10, 10, name)]

\* the batches a build is given, in iteration order of the slots 7, 8, 9: one
\* with a case-insensitive collision of the first two hotkeys, one with an
\* exact collision of the last two
Batches ==
    { <<Entry("7", a, <<k_up, k_down>>, "A"),
        Entry("8", b, <<k_left>>, "B"),
        Entry("9", h_num8, <<>>, "C")>> :
        <<a, b>> \in {<<h_Num7, h_NUM7>>, <<h_num7, h_num8>>} }

\* values the auto-panel configuration can hold
PanelConfigs == [enabled : {TRUE}, key : {<<" ">>, <<"h", " ">>}]

\* ---------------------------------------------------------------- state
VARIABLES
    impl,                \* which of the two implementations runs
    records,             \* MacroManager.records
    hooks,               \* subscriptions live at the keyboard collaborator
    nextHook,            \* next subscription token the collaborator issues
    slot_hotkey_lookup,  \* lowercased hotkey -> slot
    held_scancodes,      \* MacroManager._held_scancodes
    lock,                \* the execution lock: 0 free, else the holding invocation
    auto_panel,          \* auto_panel_enabled / auto_panel_key, _auto_panel_state
    inv,                 \* one record per call of the trigger dispatcher
    log,                 \* progress notifications and injected key events, in order
    runs,                \* per scan code, for the "down" events handed to a press
                         \* hook since its last "up": downs is 1 for one event and
                         \* 2 for several, disp counts the triggers they dispatched
    regs,                \* registry operations so far
    lastBatch,           \* the batch of the latest build
    faults,              \* injections that raised so far
    raised,              \* the exception the latest registry operation ended with
    progress_callback,   \* _progress_callback / _macro_progress_callback
    hook_threads,        \* per hook thread, the on_press call it is inside
    listening,           \* main.py: the listening flag
    settings,            \* main.py: per settings window, open and capturing["active"]
    capture_threads,     \* main.py: per settings window, the capture worker that has
                         \* not yet handed its result to finish_capture, as the
                         \* was_listening it carries
    app_state,           \* state.AppState
    call                 \* the latest call of reset, apply_profile, serialize or
                         \* resolve_template_keys: its arguments and what it returned

vars == <<impl, records, hooks, nextHook, slot_hotkey_lookup, held_scancodes, lock,
          auto_panel, inv, log, runs, regs, lastBatch, faults, raised, progress_callback,
          hook_threads, listening, settings, capture_threads, app_state, call>>

EmptyLookup == [h \in {} |-> ""]

\* the threads of the keyboard collaborator that call the hooks
HookThreads == {1, 2}

\* a hook thread that is inside no on_press call
Idle == [pc |-> "idle"]

\* the settings windows that can be open at once; open_settings makes a new
\* window on every call
Windows == {1, 2}

\* a settings window that is not open
Closed == [open |-> FALSE, capturing |-> FALSE]

\* ------------------------------------------------------- stratagem templates
\* models.MacroTemplate
MacroTemplate(name, directions, delay, category) ==
    [name |-> name, directions |-> directions, delay |-> delay, category |-> category]

d_Up    == <<"U", "p">>
d_Down  == <<"D", "o", "w", "n">>

\* config.DEFAULT_DIRECTION_KEYS
DEFAULT_DIRECTION_KEYS ==
    (d_Up :> k_up) @@ (d_Down :> k_down)
    @@ (<<"L", "e", "f", "t">> :> k_left) @@ (<<"R", "i", "g", "h", "t">> :> k_right)

\* a lookup that prefers the default binding to the user's
Mapped_DefaultFirst(direction, direction_keys) ==
    IF direction \in DOMAIN DEFAULT_DIRECTION_KEYS /\ DEFAULT_DIRECTION_KEYS[direction] # <<>>
    THEN Some(DEFAULT_DIRECTION_KEYS[direction])
    ELSE IF direction \in DOMAIN direction_keys THEN Some(direction_keys[direction])
    ELSE None

\* direction_keys.get(direction) or DEFAULT_DIRECTION_KEYS.get(direction): None
\* when the direction is in neither dict; an empty string counts as false
Mapped(direction, direction_keys) ==
    IF direction \in DOMAIN direction_keys /\ direction_keys[direction] # <<>>
    THEN Some(direction_keys[direction])
    ELSE IF direction \in DOMAIN DEFAULT_DIRECTION_KEYS
    THEN Some(DEFAULT_DIRECTION_KEYS[direction])
    ELSE None

\* the loop of resolve_template_keys over the directions that are left, keys
\* being the list built so far
RECURSIVE ResolveLoop(_, _, _)
ResolveLoop(directions, direction_keys, keys) ==
    IF directions = <<>> THEN keys
    ELSE LET direction == Head(directions)
             mapped == Mapped(direction, direction_keys)
         IN ResolveLoop(Tail(directions), direction_keys,
                        IF mapped # None /\ mapped[1] # <<>> THEN Append(keys, mapped[1])
                        ELSE Append(keys, Lower(direction)))

\* stratagems.resolve_template_keys
resolve_template_keys(template, direction_keys) ==
    ResolveLoop(template.directions, direction_keys, <<>>)

\* the longest direction sequence of a template given to resolve_template_keys
MaxDirections == 3

RECURSIVE SeqsUpTo(_, _)
SeqsUpTo(S, n) ==
    IF n = 0 THEN {<<>>}
    ELSE LET shorter == SeqsUpTo(S, n - 1)
         IN shorter \cup {Append(q, x) : q \in shorter, x \in S}

\* ------------------------------------------------------------ profile values
\* the values of a profile document, by their Python type. A float is the
\* count of its thousandths: 0.05 is 50, 1.0 is 1000
Str(s) == [t |-> "str", str |-> s]
Num(n) == [t |-> "num", num |-> n]
Bool(b) == [t |-> "bool", bool |-> b]
Dict(f) == [t |-> "dict", dict |-> f]
PyNone == [t |-> "none"]
\* an int too large for a float
Huge == [t |-> "huge"]

\* d.get(key, default)
Get(d, key, default) == IF key \in DOMAIN d.dict THEN d.dict[key] ELSE default

\* the decimal digits and their values
Digits ==
    ("0" :> 0) @@ ("1" :> 1) @@ ("2" :> 2) @@ ("3" :> 3) @@ ("4" :> 4)
    @@ ("5" :> 5) @@ ("6" :> 6) @@ ("7" :> 7) @@ ("8" :> 8) @@ ("9" :> 9)

RECURSIVE DecimalValue(_)
DecimalValue(digits) ==
    IF digits = <<>> THEN 0
    ELSE 10 * DecimalValue(SubSeq(digits, 1, Len(digits) - 1)) + Digits[digits[Len(digits)]]

\* float(s) of a string: surrounding blanks dropped, an optional sign, then
\* digits; anything else is a ValueError. What float() makes of a value is
\* the exception it raised, if any, and the number it returned
ParseFloat(s) ==
    LET body == Strip(s)
        signed == body # <<>> /\ Head(body) \in {"-", "+"}
        digits == IF signed THEN Tail(body) ELSE body
        value == 1000 * DecimalValue(digits)
    IN IF digits # <<>> /\ \A i \in 1..Len(digits) : digits[i] \in DOMAIN Digits
       THEN [raised |-> None,
             v |-> IF signed /\ Head(body) = "-" THEN 0 - value ELSE value]
       ELSE [raised |-> Some("ValueError"), v |-> 0]

\* float(x)
Float(x) ==
    CASE x.t = "num"  -> [raised |-> None, v |-> x.num]
      [] x.t = "bool" -> [raised |-> None, v |-> IF x.bool THEN 1000 ELSE 0]
      [] x.t = "str"  -> ParseFloat(x.str)
      [] x.t = "huge" -> [raised |-> Some("OverflowError"), v |-> 0]
      [] OTHER        -> [raised |-> Some("TypeError"), v |-> 0]

\* ------------------------------------------------------------- state.AppState
\* config.NUMPAD_SLOTS, the first two of its nine slots
NUMPAD_SLOTS == << <<"7", h_num7>>, <<"8", h_num8>> >>

\* config.DEFAULT_SLOT_HOTKEYS
DEFAULT_SLOT_HOTKEYS ==
    [slot \in {NUMPAD_SLOTS[i][1] : i \in DOMAIN NUMPAD_SLOTS} |->
        NUMPAD_SLOTS[CHOOSE i \in DOMAIN NUMPAD_SLOTS : NUMPAD_SLOTS[i][1] = slot][2]]

\* config.DEFAULT_DELAY and config.DEFAULT_DURATION
DEFAULT_DELAY == 50
DEFAULT_DURATION == 50

\* the defaults of the panel key and of the overlay
DEFAULT_PANEL_KEY == <<"c", "t", "r", "l">>
DEFAULT_AUTO_PANEL == TRUE
DEFAULT_OVERLAY_LOCK_KEY == <<"f", "8">>
DEFAULT_OVERLAY_OPACITY == 900

\* the templates the application has loaded; their names are unique
templates ==
    << MacroTemplate("A", <<d_Up, d_Down>>, DEFAULT_DELAY, "Stratagems"),
       MacroTemplate("B", <<d_Down>>, DEFAULT_DELAY, "Stratagems") >>

\* AppState.reset(): the state it leaves, which is also the state of a new AppState
reset ==
    [assignments      |-> [slot \in DOMAIN DEFAULT_SLOT_HOTKEYS |-> None],
     slot_hotkeys     |-> DEFAULT_SLOT_HOTKEYS,
     direction_keys   |-> DEFAULT_DIRECTION_KEYS,
     panel_key        |-> DEFAULT_PANEL_KEY,
     auto_panel       |-> DEFAULT_AUTO_PANEL,
     overlay_lock_key |-> DEFAULT_OVERLAY_LOCK_KEY,
     overlay_opacity  |-> DEFAULT_OVERLAY_OPACITY,
     macro_delay      |-> DEFAULT_DELAY,
     macro_duration   |-> DEFAULT_DURATION]

\* a profile that leaves the panel section out
serialize_NoPanel(self) ==
    Dict(("slots" :> Dict([slot \in DOMAIN self.assignments |->
                              IF self.assignments[slot] # None
                              THEN Str(self.assignments[slot][1].name) ELSE PyNone]))
         @@ ("hotkeys" :> Dict([slot \in DOMAIN self.slot_hotkeys |->
                                   Str(self.slot_hotkeys[slot])]))
         @@ ("direction_keys" :> Dict([d \in DOMAIN self.direction_keys |->
                                          Str(self.direction_keys[d])]))
         @@ ("timing" :> Dict(("delay" :> Num(self.macro_delay))
                              @@ ("duration" :> Num(self.macro_duration))))
         @@ ("overlay" :> Dict(("lock_key" :> Str(self.overlay_lock_key))
                               @@ ("opacity" :> Num(self.overlay_opacity)))))

\* AppState.serialize()
serialize(self) ==
    Dict(("slots" :> Dict([slot \in DOMAIN self.assignments |->
                              IF self.assignments[slot] # None
                              THEN Str(self.assignments[slot][1].name) ELSE PyNone]))
         @@ ("hotkeys" :> Dict([slot \in DOMAIN self.slot_hotkeys |->
                                   Str(self.slot_hotkeys[slot])]))
         @@ ("direction_keys" :> Dict([d \in DOMAIN self.direction_keys |->
                                          Str(self.direction_keys[d])]))
         @@ ("timing" :> Dict(("delay" :> Num(self.macro_delay))
                              @@ ("duration" :> Num(self.macro_duration))))
         @@ ("panel" :> Dict(("key" :> Str(self.panel_key))
                             @@ ("auto" :> Bool(self.auto_panel))))
         @@ ("overlay" :> Dict(("lock_key" :> Str(self.overlay_lock_key))
                               @@ ("opacity" :> Num(self.overlay_opacity)))))

\* what a part of apply_profile leaves: the state, the missing names so far and
\* the exception that ended it, if any
Applied(state, missing, exc) == [state |-> state, missing |-> missing, raised |-> exc]

\* the loop over NUMPAD_SLOTS that assigns the slots, from its i-th slot on;
\* tpl is next((t for t in templates if t.name == name), None)
RECURSIVE SlotsLoop(_, _, _, _, _)
SlotsLoop(i, slots_data, tpls, assignments, missing) ==
    IF i > Len(NUMPAD_SLOTS) THEN [assignments |-> assignments, missing |-> missing]
    ELSE LET slot == NUMPAD_SLOTS[i][1]
             name == Get(slots_data, slot, PyNone)
             hits == {j \in DOMAIN tpls : name.t = "str" /\ tpls[j].name = name.str}
             tpl == IF hits = {} THEN None
                    ELSE Some(tpls[CHOOSE j \in hits : \A k \in hits : j <= k])
         IN IF name.t = "none"
            THEN SlotsLoop(i + 1, slots_data, tpls,
                           [assignments EXCEPT ![slot] = None], missing)
            ELSE IF tpl = None
            THEN SlotsLoop(i + 1, slots_data, tpls,
                           [assignments EXCEPT ![slot] = None], Append(missing, name))
            ELSE SlotsLoop(i + 1, slots_data, tpls,
                           [assignments EXCEPT ![slot] = tpl], missing)

\* apply_profile, the "slots" section; a section that is no dict has no get
ApplySlots(self, data, tpls) ==
    LET slots_data == Get(data, "slots", Dict(<<>>))
        done == SlotsLoop(1, slots_data, tpls, self.assignments, <<>>)
    IN IF slots_data.t # "dict" THEN Applied(self, <<>>, Some("AttributeError"))
       ELSE Applied([self EXCEPT !.assignments = done.assignments], done.missing, None)

\* apply_profile, the "hotkeys" section
ApplyHotkeys(self, data) ==
    LET hotkeys_data == Get(data, "hotkeys", Dict(<<>>))
    IN IF hotkeys_data.t = "dict"
       THEN [self EXCEPT !.slot_hotkeys =
                [slot \in DOMAIN DEFAULT_SLOT_HOTKEYS |->
                    LET hk == Get(hotkeys_data, slot, PyNone)
                    IN IF hk.t = "str" /\ Strip(hk.str) # <<>> THEN Strip(hk.str)
                       ELSE IF slot \in DOMAIN DEFAULT_SLOT_HOTKEYS
                            THEN DEFAULT_SLOT_HOTKEYS[slot]
                            ELSE self.slot_hotkeys[slot]]]
       ELSE self

\* apply_profile, the "direction_keys" section
ApplyDirections(self, data) ==
    LET direction_data == Get(data, "direction_keys", Dict(<<>>))
    IN IF direction_data.t = "dict"
       THEN [self EXCEPT !.direction_keys =
                [direction \in DOMAIN DEFAULT_DIRECTION_KEYS |->
                    LET val == Get(direction_data, direction, PyNone)
                    IN IF val.t = "str" /\ Strip(val.str) # <<>> THEN Strip(val.str)
                       ELSE DEFAULT_DIRECTION_KEYS[direction]]]
       ELSE self

\* a timing section that takes each value that is non-negative, whatever the other
ApplyTiming_EachAlone(self, data) ==
    LET timing_data == Get(data, "timing", Dict(<<>>))
        delay_f == Float(Get(timing_data, "delay", Num(self.macro_delay)))
        duration_f == Float(Get(timing_data, "duration", Num(self.macro_duration)))
    IN IF timing_data.t # "dict" THEN Applied(self, <<>>, None)
       ELSE Applied([self EXCEPT
                        !.macro_delay = IF delay_f.raised = None /\ delay_f.v >= 0
                                        THEN delay_f.v ELSE @,
                        !.macro_duration = IF duration_f.raised = None /\ duration_f.v >= 0
                                           THEN duration_f.v ELSE @],
                    <<>>, None)

\* apply_profile, the "timing" section: TypeError and ValueError are caught,
\* any other exception of float() ends apply_profile
ApplyTiming(self, data) ==
    LET timing_data == Get(data, "timing", Dict(<<>>))
        delay_f == Float(Get(timing_data, "delay", Num(self.macro_delay)))
        duration_f == Float(Get(timing_data, "duration", Num(self.macro_duration)))
        exc == IF delay_f.raised # None THEN delay_f.raised ELSE duration_f.raised
    IN IF timing_data.t # "dict" THEN Applied(self, <<>>, None)
       ELSE IF exc # None
       THEN Applied(self, <<>>,
                    IF exc[1] \in {"TypeError", "ValueError"} THEN None ELSE exc)
       ELSE IF delay_f.v >= 0 /\ duration_f.v >= 0
       THEN Applied([self EXCEPT !.macro_delay = delay_f.v,
                                 !.macro_duration = duration_f.v], <<>>, None)
       ELSE Applied(self, <<>>, None)

\* apply_profile, the "panel" section
ApplyPanel(self, data) ==
    LET panel_data == Get(data, "panel", Dict(<<>>))
        key_val == Get(panel_data, "key", PyNone)
        auto_val == Get(panel_data, "auto", PyNone)
    IN IF panel_data.t = "dict"
       THEN [self EXCEPT
                !.panel_key = IF key_val.t = "str" /\ Strip(key_val.str) # <<>>
                              THEN Lower(Strip(key_val.str)) ELSE DEFAULT_PANEL_KEY,
                !.auto_panel = IF auto_val.t = "bool" THEN auto_val.bool ELSE DEFAULT_AUTO_PANEL]
       ELSE [self EXCEPT !.panel_key = DEFAULT_PANEL_KEY,
                         !.auto_panel = DEFAULT_AUTO_PANEL]

\* apply_profile, the "overlay" section: the lock key is assigned before the
\* opacity is converted; max(0.1, min(1.0, x)) keeps x within 100..1000
ApplyOverlay(self, data) ==
    LET overlay_data == Get(data, "overlay", Dict(<<>>))
        lock_val == Get(overlay_data, "lock_key", PyNone)
        locked == IF lock_val.t = "str" /\ Strip(lock_val.str) # <<>>
                  THEN [self EXCEPT !.overlay_lock_key = Strip(lock_val.str)] ELSE self
        op_f == Float(Get(overlay_data, "opacity", Num(self.overlay_opacity)))
    IN IF overlay_data.t # "dict"
       THEN Applied([self EXCEPT !.overlay_lock_key = DEFAULT_OVERLAY_LOCK_KEY,
                                 !.overlay_opacity = DEFAULT_OVERLAY_OPACITY], <<>>, None)
       ELSE IF op_f.raised = None
       THEN Applied([locked EXCEPT !.overlay_opacity =
                                     IF op_f.v > 1000 THEN 1000
                                     ELSE IF op_f.v < 100 THEN 100 ELSE op_f.v],
                    <<>>, None)
       ELSE IF op_f.raised[1] \in {"TypeError", "ValueError"}
       THEN Applied([locked EXCEPT !.overlay_opacity = DEFAULT_OVERLAY_OPACITY], <<>>, None)
       ELSE Applied(locked, <<>>, op_f.raised)

\* AppState.apply_profile(data, templates): its sections in order, up to the
\* first exception that escapes
apply_profile(self, data, tpls) ==
    LET slots == ApplySlots(self, data, tpls)
        keyed == ApplyDirections(ApplyHotkeys(slots.state, data), data)
        timed == ApplyTiming(keyed, data)
        panelled == ApplyPanel(timed.state, data)
        overlaid == ApplyOverlay(panelled, data)
    IN IF slots.raised # None THEN slots
       ELSE IF timed.raised # None THEN Applied(timed.state, slots.missing, timed.raised)
       ELSE Applied(overlaid.state, slots.missing, overlaid.raised)

NoRun == [downs |-> 0, disp |-> 0, heldAtStart |-> FALSE, passed |-> FALSE]

Init ==
    /\ impl \in Impls
    /\ records = <<>>
    /\ hooks = {}
    /\ nextHook = 1
    /\ slot_hotkey_lookup = EmptyLookup
    /\ held_scancodes = {}
    /\ lock = 0
    /\ auto_panel \in PanelConfigs
    /\ inv = <<>>
    /\ log = <<>>
    /\ runs = [sc \in ScanCodes |-> NoRun]
    /\ regs = 0
    /\ lastBatch = <<>>
    /\ faults = 0
    /\ raised = None
    /\ progress_callback = Some("ui")
    /\ hook_threads = [t \in HookThreads |-> Idle]
    /\ listening = FALSE
    /\ settings = [w \in Windows |-> Closed]
    /\ capture_threads = [w \in Windows |-> None]
    /\ app_state = reset
    /\ call = [op |-> "none"]

\* ---------------------------------------------------------------- registry
\* a registry value: the records, the collaborator's subscriptions, the lookup
Registry(recs, hks, nxt, lookup) ==
    [records |-> recs, hooks |-> hks, next |-> nxt, lookup |-> lookup, raised |-> None]

LookupSet(lookup, hotkey, slot) ==
    [h \in DOMAIN lookup \cup {hotkey} |-> IF h = hotkey THEN slot ELSE lookup[h]]

\* keyboard.unhook(handle)
Unhook(hks, id) == {h \in hks : h.id # id}

\* keyboard.on_press_key raises ValueError for a key name it cannot map
Rejected(hotkey) == Lower(hotkey) = h_nun7

\* _register_macro: keyboard.on_press_key and keyboard.on_release_key; the
\* closures capture the macro they were given; the handle is <<R.next, R.next + 1>>
Subscribe(R, macro, epoch) ==
    LET press == [id |-> R.next, kind |-> "press", scan |-> ScanOf(macro.hotkey),
                  macro |-> macro, epoch |-> epoch]
        release == [id |-> R.next + 1, kind |-> "release", scan |-> ScanOf(macro.hotkey),
                    macro |-> macro, epoch |-> epoch]
    IN  IF Rejected(macro.hotkey)
        THEN [R EXCEPT !.raised = ValueErrorNotMapped(macro.hotkey)]
        ELSE [R EXCEPT !.hooks = R.hooks \cup {press, release},
                       !.next = R.next + 2]

\* handle = self._register_macro(macro); self.records.append(MacroRecord(macro, handle))
RegisterMacro(R, macro, epoch) ==
    LET S == Subscribe(R, macro, epoch)
    IN  IF S.raised # None
        THEN S
        ELSE [S EXCEPT !.records = Append(R.records,
                                       [macro |-> macro, handle |-> <<R.next, R.next + 1>>])]

\* a duplicate test on the hotkey as the caller wrote it
NormalizeHotkey_Raw(hotkey) == hotkey

\* hotkey = macro.hotkey.lower(), the key of the duplicate test
NormalizeHotkey(hotkey) == Lower(hotkey)

\* macro_manager.MacroManager.clear
RECURSIVE ClearMM(_)
ClearMM(R) ==
    IF R.records = <<>>
    THEN [R EXCEPT !.lookup = EmptyLookup]
    ELSE LET r == Head(R.records)
         IN  ClearMM([R EXCEPT !.records = Tail(R.records),
                               !.hooks = Unhook(Unhook(R.hooks, r.handle[1]), r.handle[2])])

\* main.MacroManager.clear: only the press hook of a record is unhooked
RECURSIVE ClearMain(_)
ClearMain(R) ==
    IF R.records = <<>>
    THEN R
    ELSE LET r == Head(R.records)
         IN  ClearMain([R EXCEPT !.records = Tail(R.records),
                                 !.hooks = Unhook(R.hooks, r.handle[1])])

\* macro_manager.MacroManager.register_macros, the loop over the batch
RECURSIVE RegisterLoopMM(_, _, _)
RegisterLoopMM(R, batch, epoch) ==
    IF batch = <<>>
    THEN R
    ELSE LET e == Head(batch)
             hotkey == NormalizeHotkey(e.macro.hotkey)
         IN  IF hotkey \in DOMAIN R.lookup
             THEN RegisterLoopMM(R, Tail(batch), epoch)
             ELSE LET R1 == RegisterMacro(
                                [R EXCEPT !.lookup = LookupSet(R.lookup, hotkey, e.slot)],
                                e.macro, epoch)
                  IN  IF R1.raised # None
                      THEN R1
                      ELSE RegisterLoopMM(R1, Tail(batch), epoch)

register_macros(R, batch, epoch) ==
    RegisterLoopMM([ClearMM(R) EXCEPT !.lookup = EmptyLookup], batch, epoch)

\* a duplicate test that finds nothing
HotkeyInUse_Never(recs, hotkey, ignore_index) == FALSE

\* a duplicate test that forgets ignore_index
HotkeyInUse_NoIgnore(recs, hotkey, ignore_index) ==
    \E idx \in 0..(Len(recs) - 1) : recs[idx + 1].macro.hotkey = hotkey

\* main.MacroManager._hotkey_in_use; idx counts from 0 as enumerate does
HotkeyInUse(recs, hotkey, ignore_index) ==
    \E idx \in 0..(Len(recs) - 1) :
        /\ ~(ignore_index # None /\ idx = ignore_index[1])
        /\ recs[idx + 1].macro.hotkey = hotkey

\* main.MacroManager.add_macro
add_macro(R, macro, epoch) ==
    LET hotkey == NormalizeHotkey(macro.hotkey)
        normalized == Macro(hotkey, macro.keys, macro.delay, macro.duration, macro.name)
    IN  IF HotkeyInUse(R.records, hotkey, None)
        THEN [R EXCEPT !.raised = ValueErrorInUse(hotkey)]
        ELSE RegisterMacro(R, normalized, epoch)

\* an index test that lets Python's negative indices through
ValidIndex_NoLowerBound(recs, index) == index < Len(recs)

\* 0 <= index < len(self.records)
ValidIndex(recs, index) == 0 <= index /\ index < Len(recs)

\* the position list[index] names, counted from 1; negative indices count from
\* the end
PyPos(recs, index) == IF index < 0 THEN Len(recs) + index + 1 ELSE index + 1

\* list.pop(index)
Pop(recs, pos) == SubSeq(recs, 1, pos - 1) \o SubSeq(recs, pos + 1, Len(recs))

\* main.MacroManager.update_macro
update_macro(R, index, macro, epoch) ==
    LET hotkey == NormalizeHotkey(macro.hotkey)
        new_macro == Macro(hotkey, macro.keys, macro.delay, macro.duration, macro.name)
        pos == PyPos(R.records, index)
    IN  IF ~ValidIndex(R.records, index) \/ pos \notin DOMAIN R.records
        THEN [R EXCEPT !.raised = IndexError]
        ELSE IF HotkeyInUse(R.records, hotkey, Some(index))
             THEN [R EXCEPT !.raised = ValueErrorInUse(hotkey)]
             ELSE LET old == R.records[pos]
                      R1 == [R EXCEPT !.hooks = Unhook(Unhook(R.hooks, old.handle[1]),
                                                       old.handle[2])]
                      S == Subscribe(R1, new_macro, epoch)
                  IN  IF S.raised # None
                      THEN S
                      ELSE [S EXCEPT !.records[pos] =
                                [macro |-> new_macro, handle |-> <<R1.next, R1.next + 1>>]]

\* main.MacroManager.remove_macro
remove_macro(R, index) ==
    LET pos == PyPos(R.records, index)
    IN  IF ~ValidIndex(R.records, index) \/ pos \notin DOMAIN R.records
        THEN [R EXCEPT !.raised = IndexError]
        ELSE LET record == R.records[pos]
             IN  [R EXCEPT !.records = Pop(R.records, pos),
                           !.hooks = Unhook(Unhook(R.hooks, record.handle[1]),
                                            record.handle[2])]

\* main.rebuild_listeners while listening, the loop over NUMPAD_SLOTS with
\* manager.add_macro; its ValueError is caught and logged
RECURSIVE RebuildLoopMain(_, _, _)
RebuildLoopMain(R, batch, epoch) ==
    IF batch = <<>>
    THEN R
    ELSE LET e == Head(batch)
             hotkey == NormalizeHotkey(e.macro.hotkey)
             R1 == [R EXCEPT !.lookup = LookupSet(R.lookup, hotkey, e.slot)]
             R2 == add_macro(R1, e.macro, epoch)
         IN  IF R2.raised # None /\ R2.raised[1] = "ValueError"
             THEN RebuildLoopMain([R2 EXCEPT !.raised = None], Tail(batch), epoch)
             ELSE RebuildLoopMain(R2, Tail(batch), epoch)

rebuild_listeners(R, batch, epoch) ==
    RebuildLoopMain([ClearMain(R) EXCEPT !.lookup = EmptyLookup], batch, epoch)

\* a registry build: register_macros(batch), or rebuild_listeners() of an
\* application that is listening or starts to listen
Build(batch) ==
    /\ LET R == Registry(records, hooks, nextHook, slot_hotkey_lookup)
           R2 == IF impl = "mm" THEN register_macros(R, batch, regs + 1)
                                ELSE rebuild_listeners(R, batch, regs + 1)
       IN  /\ records' = R2.records
           /\ hooks' = R2.hooks
           /\ nextHook' = R2.next
           /\ slot_hotkey_lookup' = R2.lookup
           /\ raised' = R2.raised
    /\ regs' = regs + 1
    /\ lastBatch' = batch
    /\ listening' = TRUE
    /\ UNCHANGED <<impl, held_scancodes, lock, auto_panel, inv, log, runs, faults,
                   progress_callback, hook_threads, settings, capture_threads,
                   app_state, call>>

\* the one build of a session that starts listening and keeps its macros
Register(batch) ==
    /\ regs < MaxRegs
    /\ Build(batch)

\* ---------------------------------------------------------------- debouncer
\* the numpad-origin test without the case of an undetermined keypad flag
NumpadSuppressed_FlagOnly(macro, e) ==
    StartsWith(macro.hotkey, NumPrefix) /\ e.is_keypad = "False"

\* on_press: the numpad-origin test of a "num " hotkey
NumpadSuppressed(macro, e) ==
    /\ StartsWith(macro.hotkey, NumPrefix)
    /\ \/ e.is_keypad = "False"
       \/ e.is_keypad = "None" /\ e.name \in ArrowNames

\* a press handler without the held-key test
IsAutoRepeat_Never(held, sc) == FALSE

\* on_press: sc in self._held_scancodes
IsAutoRepeat(held, sc) == sc \in held

\* a release handler that applies the keypad test of the press handler
OnRelease_KeypadOnly(st, e) ==
    IF e.is_keypad = "False" THEN st ELSE [st EXCEPT !.held = st.held \ {e.scan_code}]

\* a release handler that forgets nothing
OnRelease_Noop(st, e) == st

\* on_release: self._held_scancodes.discard(event.scan_code); st carries the
\* held set, the invocations and the log
OnRelease(st, e) == [st EXCEPT !.held = st.held \ {e.scan_code}]

\* ---------------------------------------------------------------- dispatcher
\* threading.Lock.locked()
Locked(l) == l # 0

\* main._launch_macro_from_hotkey tests _macro_lock.locked();
\* macro_manager.MacroManager._launch_macro has no such test
SingleFlightDrop(im, l) == im = "main" /\ Locked(l)

\* a panel decision that takes a blank key for a key
PanelKeyArg_NoStrip(ap) ==
    IF ap.enabled /\ ap.key # <<>> THEN ap.key ELSE None

\* the panel key captured for a trigger
PanelKeyArg(ap) ==
    IF ap.enabled
    THEN LET key == Strip(ap.key) IN IF key # <<>> THEN key ELSE None
    ELSE None

\* _slot_hotkey_lookup.get(macro.hotkey.lower())
SlotOf(lookup, macro) ==
    IF Lower(macro.hotkey) \in DOMAIN lookup THEN Some(lookup[Lower(macro.hotkey)]) ELSE None

\* a total that leaves the panel key out
TotalTime_NoPanel(macro, panel) == Len(macro.keys) * (macro.duration + macro.delay)

\* total_len * (macro.duration + macro.delay)
TotalTime(macro, panel) ==
    (Len(macro.keys) + (IF panel # None THEN 1 ELSE 0)) * (macro.duration + macro.delay)

\* the observers a session installs: "ui" returns, "faulty" raises
Observers == {"ui", "faulty"}

\* cb(event, macro, slot, total_time) raises
Raises(cb) == cb = Some("faulty")

\* a notifier without the try/except: the observer's exception goes on to the
\* caller
Escapes_NoCatch(cb) == Raises(cb)

\* try: cb(...) except Exception: pass -- nothing the observer raises leaves
\* the notifier
Escapes(cb) == FALSE

\* a call of _notify_progress / _notify_macro_progress; to is the callback it
\* finds and calls, None when there is none
Notify(event, i, macro, slot, total) ==
    [kind |-> event, inv |-> i, key |-> None, slot |-> slot, total |-> total,
     macro |-> macro.name, to |-> progress_callback]

\* keyboard.press / keyboard.release as the injection collaborator records them
Inject(kind, i, macro, key) ==
    [kind |-> kind, inv |-> i, key |-> key, slot |-> None, total |-> None,
     macro |-> macro.name, to |-> None]

\* the worker's position right after threading.Thread(...).start()
Spawned(macro, panel, slot, seen) ==
    [macro |-> macro, panel |-> panel, slot |-> slot, pc |-> "spawned", idx |-> 0,
     failed |-> FALSE, lockedAt |-> seen.lockedAt, pendingAt |-> seen.pendingAt,
     doneAt |-> seen.doneAt, panelAtRun |-> None, cb |-> None]

\* a trigger the dispatcher drops
Dropped(macro, seen) ==
    [macro |-> macro, panel |-> None, slot |-> None, pc |-> "dropped", idx |-> 0,
     failed |-> FALSE, lockedAt |-> seen.lockedAt, pendingAt |-> seen.pendingAt,
     doneAt |-> seen.doneAt, panelAtRun |-> None, cb |-> None]

\* what holds at the moment a trigger reaches the dispatcher: the lock's holder,
\* the workers started but not yet inside the with block, the workers that ended
Seen(w, l) ==
    [lockedAt |-> l,
     pendingAt |-> {j \in 1..Len(w) : w[j].pc = "spawned"},
     doneAt |-> {j \in 1..Len(w) : w[j].pc = "done"}]

\* a dispatcher that plays the macro itself, on the hook thread, before it
\* returns
Launch_Inline(st, macro) ==
    LET i == Len(st.inv) + 1
        panel == PanelKeyArg(auto_panel)
        slot == SlotOf(slot_hotkey_lookup, macro)
        seq == IF panel # None THEN <<panel>> \o macro.keys ELSE macro.keys
        events == [n \in 1..(2 * Len(seq)) |->
                      Inject(IF n % 2 = 1 THEN "press" ELSE "release", i, macro,
                             seq[(n + 1) \div 2])]
    IN  [st EXCEPT
            !.inv = Append(st.inv,
                           [Spawned(macro, panel, slot, Seen(st.inv, lock)) EXCEPT !.pc = "stop"]),
            !.log = Append(st.log, Notify("start", i, macro, slot,
                                          Some(TotalTime(macro, panel)))) \o events]

\* the worker is started before the "start" notification is due, and the
\* notification is lost
Launch_NoStart(st, macro) ==
    [st EXCEPT !.inv = Append(st.inv,
                 Spawned(macro, PanelKeyArg(auto_panel), SlotOf(slot_hotkey_lookup, macro),
                         Seen(st.inv, lock)))]

\* _launch_macro / _launch_macro_from_hotkey on the hook thread; st carries
\* the held set, the invocations and the log
Launch(st, macro) ==
    LET i == Len(st.inv) + 1
        panel == PanelKeyArg(auto_panel)
        slot == SlotOf(slot_hotkey_lookup, macro)
    IN  IF SingleFlightDrop(impl, lock)
        THEN [st EXCEPT !.inv = Append(st.inv, Dropped(macro, Seen(st.inv, lock)))]
        ELSE IF Escapes(progress_callback)
        THEN [st EXCEPT
                 !.inv = Append(st.inv,
                                [Dropped(macro, Seen(st.inv, lock)) EXCEPT !.pc = "raised"]),
                 !.log = Append(st.log,
                                Notify("start", i, macro, slot, Some(TotalTime(macro, panel))))]
        ELSE [st EXCEPT
                 !.inv = Append(st.inv, Spawned(macro, panel, slot, Seen(st.inv, lock))),
                 !.log = Append(st.log,
                                Notify("start", i, macro, slot, Some(TotalTime(macro, panel))))]

\* the on_press closure of one press hook
OnPress(st, macro, e) ==
    IF NumpadSuppressed(macro, e)
    THEN st
    ELSE IF IsAutoRepeat(st.held, e.scan_code)
         THEN st
         ELSE Launch([st EXCEPT !.held = st.held \cup {e.scan_code}], macro)

\* the collaborator calls every press hook of the scan code, oldest first
RECURSIVE DeliverDown(_, _, _)
DeliverDown(st, hs, e) ==
    IF hs = {}
    THEN st
    ELSE LET h == CHOOSE x \in hs : \A y \in hs : x.id <= y.id
         IN  DeliverDown(OnPress(st, h.macro, e), hs \ {h}, e)

PressHooks(sc) == {h \in hooks : h.kind = "press" /\ h.scan = sc}
ReleaseHooks(sc) == {h \in hooks : h.kind = "release" /\ h.scan = sc}

\* the global hook delivers a "down" event
KeyDown(e) ==
    /\ Len(inv) < MaxTriggers
    /\ LET sc == e.scan_code
           st == DeliverDown([held |-> held_scancodes, inv |-> inv, log |-> log],
                             PressHooks(sc), e)
           r == runs[sc]
       IN  /\ held_scancodes' = st.held
           /\ inv' = st.inv
           /\ log' = st.log
           /\ runs' = IF PressHooks(sc) = {} THEN runs ELSE [runs EXCEPT ![sc] =
                  [downs |-> IF r.downs = 0 THEN 1 ELSE 2,
                   disp |-> r.disp + (Len(st.inv) - Len(inv)),
                   heldAtStart |-> IF r.downs = 0 THEN sc \in held_scancodes
                                   ELSE r.heldAtStart,
                   passed |-> r.passed \/
                              \E h \in PressHooks(sc) : ~NumpadSuppressed(h.macro, e)]]
    /\ UNCHANGED <<impl, records, hooks, nextHook, slot_hotkey_lookup, lock, auto_panel,
                   regs, lastBatch, faults, raised, progress_callback,
                   hook_threads, listening, settings, capture_threads, app_state, call>>

\* the collaborator calls every release hook of the scan code
RECURSIVE DeliverUp(_, _, _)
DeliverUp(st, hs, e) ==
    IF hs = {}
    THEN st
    ELSE LET h == CHOOSE x \in hs : \A y \in hs : x.id <= y.id
         IN  DeliverUp(OnRelease(st, e), hs \ {h}, e)

\* the global hook delivers an "up" event
KeyUp(e) ==
    /\ LET st == DeliverUp([held |-> held_scancodes, inv |-> inv, log |-> log],
                           ReleaseHooks(e.scan_code), e)
       IN  /\ held_scancodes' = st.held
           /\ inv' = st.inv
           /\ log' = st.log
    /\ runs' = [runs EXCEPT ![e.scan_code] = NoRun]
    /\ UNCHANGED <<impl, records, hooks, nextHook, slot_hotkey_lookup, lock, auto_panel,
                   regs, lastBatch, faults, raised, progress_callback,
                   hook_threads, listening, settings, capture_threads, app_state, call>>

\* ---------------------------------------------------------------- player
\* a press sequence with the panel key after the macro's keys
Sequence_PanelLast(macro, panel) ==
    IF panel # None THEN macro.keys \o <<panel>> ELSE macro.keys

\* _run_macro: the press sequence
Sequence(macro, panel) == IF panel # None THEN <<panel>> \o macro.keys ELSE macro.keys

\* a worker that makes the panel decision itself, from the setting it finds
\* when it enters the with block
SeqOf_PanelAtRun(i) == Sequence(inv[i].macro, inv[i].panelAtRun)

\* the press sequence of invocation i: macro and panel key are the arguments
\* the dispatcher gave the worker
SeqOf(i) == Sequence(inv[i].macro, inv[i].panel)

\* a lock that never blocks, as if every call made its own Lock
LockAcquirable_NoExclusion(l) == TRUE

\* with lock: the blocking acquire succeeds when the lock is free
LockAcquirable(l) == l = 0

\* where a worker that holds the lock goes when an injection raises: the with
\* block releases the lock on the way out
AfterRaise == "exit"

\* acquire() and release() without with/finally: a raise skips the release
Exit_NoReleaseOnRaise(i) ==
    /\ inv[i].pc = "exit"
    /\ lock' = IF lock = i /\ ~inv[i].failed THEN 0 ELSE lock
    /\ inv' = [inv EXCEPT ![i].pc = "stop"]
    /\ UNCHANGED <<log, faults>>
    /\ UNCHANGED <<impl, records, hooks, nextHook, slot_hotkey_lookup, held_scancodes,
                   auto_panel, runs, regs, lastBatch, raised, progress_callback,
                   hook_threads, listening, settings, capture_threads, app_state, call>>

\* "stop" sent at the end of the try body instead of in a finally
AfterExit_NoFinally(failed) == IF failed THEN "done" ELSE "stop"

\* where a worker goes after leaving the with block: the finally of _worker
AfterExit(failed) == "stop"

WorkerUnchanged == <<impl, records, hooks, nextHook, slot_hotkey_lookup, held_scancodes,
                     auto_panel, runs, regs, lastBatch, raised, progress_callback,
                     hook_threads, listening, settings, capture_threads, app_state, call>>

Acquire(i) ==
    /\ inv[i].pc = "spawned"
    /\ LockAcquirable(lock)
    /\ lock' = i
    /\ inv' = [inv EXCEPT ![i].pc = IF SeqOf(i) = <<>> THEN "exit" ELSE "press",
                          ![i].idx = 1,
                          ![i].panelAtRun = PanelKeyArg(auto_panel)]
    /\ UNCHANGED <<log, faults>>
    /\ UNCHANGED WorkerUnchanged

\* keyboard.press(key); time.sleep(macro.duration)
Press(i) ==
    /\ inv[i].pc = "press"
    /\ log' = Append(log, Inject("press", i, inv[i].macro, SeqOf(i)[inv[i].idx]))
    /\ inv' = [inv EXCEPT ![i].pc = "release"]
    /\ UNCHANGED <<lock, faults>>
    /\ UNCHANGED WorkerUnchanged

\* keyboard.press(key) raises
PressRaises(i) ==
    /\ inv[i].pc = "press"
    /\ faults < MaxFaults
    /\ faults' = faults + 1
    /\ inv' = [inv EXCEPT ![i].pc = AfterRaise, ![i].failed = TRUE]
    /\ UNCHANGED <<lock, log>>
    /\ UNCHANGED WorkerUnchanged

\* a player that goes on to the next key without the key-up
Release_NoKeyUp(i) ==
    /\ inv[i].pc = "release"
    /\ inv' = [inv EXCEPT ![i].pc = IF inv[i].idx = Len(SeqOf(i)) THEN "exit" ELSE "press",
                          ![i].idx = inv[i].idx + 1]
    /\ UNCHANGED <<lock, log, faults>>
    /\ UNCHANGED WorkerUnchanged

\* a player that looks at the registry after every key and stops once the
\* macros have been cleared
Release_StopsWhenCleared(i) ==
    /\ inv[i].pc = "release"
    /\ log' = Append(log, Inject("release", i, inv[i].macro, SeqOf(i)[inv[i].idx]))
    /\ inv' = [inv EXCEPT ![i].pc = IF inv[i].idx = Len(SeqOf(i)) \/ records = <<>>
                                    THEN "exit" ELSE "press",
                          ![i].idx = inv[i].idx + 1]
    /\ UNCHANGED <<lock, faults>>
    /\ UNCHANGED WorkerUnchanged

\* keyboard.release(key); time.sleep(macro.delay)
Release(i) ==
    /\ inv[i].pc = "release"
    /\ log' = Append(log, Inject("release", i, inv[i].macro, SeqOf(i)[inv[i].idx]))
    /\ inv' = [inv EXCEPT ![i].pc = IF inv[i].idx = Len(SeqOf(i)) THEN "exit" ELSE "press",
                          ![i].idx = inv[i].idx + 1]
    /\ UNCHANGED <<lock, faults>>
    /\ UNCHANGED WorkerUnchanged

\* keyboard.release(key) raises
ReleaseRaises(i) ==
    /\ inv[i].pc = "release"
    /\ faults < MaxFaults
    /\ faults' = faults + 1
    /\ inv' = [inv EXCEPT ![i].pc = AfterRaise, ![i].failed = TRUE]
    /\ UNCHANGED <<lock, log>>
    /\ UNCHANGED WorkerUnchanged

\* a worker that emits "stop" from inside the with block, the lock still held
Exit_StopInsideWith(i) ==
    /\ inv[i].pc = "exit"
    /\ inv' = [inv EXCEPT ![i].pc = "stop"]
    /\ UNCHANGED <<lock, log, faults>>
    /\ UNCHANGED WorkerUnchanged

\* leaving the with block releases the lock
Exit(i) ==
    /\ inv[i].pc = "exit"
    /\ lock' = IF lock = i THEN 0 ELSE lock
    /\ inv' = [inv EXCEPT ![i].pc = AfterExit(inv[i].failed)]
    /\ UNCHANGED <<log, faults>>
    /\ UNCHANGED WorkerUnchanged

\* a "stop" that looks the slot up again when the run ends
NotifyStop_SlotAtStop(i) ==
    /\ inv[i].pc = "stop"
    /\ log' = Append(log, Notify("stop", i, inv[i].macro,
                                 SlotOf(slot_hotkey_lookup, inv[i].macro), None))
    /\ inv' = [inv EXCEPT ![i].pc = "done"]
    /\ UNCHANGED <<lock, faults>>
    /\ UNCHANGED WorkerUnchanged

\* finally: _notify_progress("stop", macro, slot, None)
NotifyStop(i) ==
    /\ inv[i].pc = "stop"
    /\ log' = Append(log, Notify("stop", i, inv[i].macro, inv[i].slot, None))
    /\ inv' = [inv EXCEPT ![i].pc = "done"]
    /\ UNCHANGED <<lock, faults>>
    /\ UNCHANGED WorkerUnchanged

WorkerStep(i) ==
    /\ i \in DOMAIN inv
    /\ \/ Acquire(i)
       \/ Press(i)
       \/ PressRaises(i)
       \/ Release(i)
       \/ ReleaseRaises(i)
       \/ Exit(i)
       \/ NotifyStop(i)

Next ==
    \/ \E b \in Batches : Register(b)
    \/ \E e \in DownEvents : KeyDown(e)
    \/ \E e \in UpEvents : KeyUp(e)
    \/ \E i \in DOMAIN inv : Acquire(i)
    \/ \E i \in DOMAIN inv : Press(i)
    \/ \E i \in DOMAIN inv : PressRaises(i)
    \/ \E i \in DOMAIN inv : Release(i)
    \/ \E i \in DOMAIN inv : ReleaseRaises(i)
    \/ \E i \in DOMAIN inv : Exit(i)
    \/ \E i \in DOMAIN inv : NotifyStop(i)

Spec == Init /\ [][Next]_vars

\* the worker threads are scheduled by the operating system: a worker that can
\* take a step eventually takes one
FairSpec == Spec /\ \A i \in 1..MaxTriggers : WF_vars(WorkerStep(i))

\* ------------------------------------------------------ registry operations
\* the batches of a session that edits its macros: those of Batches and one
\* whose middle hotkey the keyboard collaborator rejects
RegBatches ==
    Batches \cup
    { <<Entry("7", h_num7, <<k_up, k_down>>, "A"),
        Entry("8", h_nun7, <<k_left>>, "B"),
        Entry("9", h_num8, <<>>, "C")>> }

\* the macros handed to add_macro and update_macro
RegMacros == {Macro(h, <<k_right>>, 10, 10, "D") : h \in {h_Num7, h_Num8, h_nun7}}

\* the indices handed to update_macro and remove_macro
Indices == -1..2

\* the registry a registry operation leaves behind
Becomes(R2) ==
    /\ records' = R2.records
    /\ hooks' = R2.hooks
    /\ nextHook' = R2.next
    /\ slot_hotkey_lookup' = R2.lookup
    /\ raised' = R2.raised
    /\ regs' = regs + 1
    /\ UNCHANGED <<impl, held_scancodes, lock, auto_panel, inv, log, runs, faults,
                   progress_callback,
                   hook_threads, listening, settings, capture_threads, app_state, call>>

\* register_macros(batch) / rebuild_listeners(), any number of times
Rebuild(batch) ==
    /\ regs < MaxOps
    /\ Build(batch)

\* clear() of the implementation that runs
ClearOf(R) == IF impl = "mm" THEN ClearMM(R) ELSE ClearMain(R)

\* MacroManager.clear() / shutdown(); stop_listening and close_app call clear()
Clear ==
    /\ regs < MaxOps
    /\ Becomes(ClearOf(Registry(records, hooks, nextHook, slot_hotkey_lookup)))
    /\ UNCHANGED lastBatch

\* main.MacroManager.add_macro(macro)
AddMacro(macro) ==
    /\ impl = "main"
    /\ regs < MaxOps
    /\ Becomes(add_macro(Registry(records, hooks, nextHook, slot_hotkey_lookup),
                         macro, regs + 1))
    /\ UNCHANGED lastBatch

\* main.MacroManager.update_macro(index, macro)
UpdateMacro(index, macro) ==
    /\ impl = "main"
    /\ regs < MaxOps
    /\ Becomes(update_macro(Registry(records, hooks, nextHook, slot_hotkey_lookup),
                            index, macro, regs + 1))
    /\ UNCHANGED lastBatch

\* main.MacroManager.remove_macro(index)
RemoveMacro(index) ==
    /\ impl = "main"
    /\ regs < MaxOps
    /\ Becomes(remove_macro(Registry(records, hooks, nextHook, slot_hotkey_lookup), index))
    /\ UNCHANGED lastBatch

\* the registry operations run on the UI thread, the key events on the hook
\* thread; the worker threads touch neither the registry nor the held set
RegNext ==
    \/ \E b \in RegBatches : Rebuild(b)
    \/ Clear
    \/ \E m \in RegMacros : AddMacro(m)
    \/ \E i \in Indices : \E m \in RegMacros : UpdateMacro(i, m)
    \/ \E i \in Indices : RemoveMacro(i)
    \/ \E e \in DownEvents : KeyDown(e)
    \/ \E e \in UpEvents : KeyUp(e)

RegSpec == Init /\ [][RegNext]_vars

\* ------------------------------------------------------------ configuration
\* the values set_auto_panel / sync_auto_panel_state store: disabled, and
\* enabled with an empty, a blank and a real key
PanelStates ==
    [enabled : {FALSE}, key : {<<"h", " ">>}]
    \cup [enabled : {TRUE}, key : {<<>>, <<" ">>, <<"h", " ">>}]

\* MacroManager.set_auto_panel(enabled, key) / main.sync_auto_panel_state()
SetAutoPanel(cfg) ==
    /\ cfg # auto_panel
    /\ auto_panel' = cfg
    /\ UNCHANGED <<impl, records, hooks, nextHook, slot_hotkey_lookup, held_scancodes, lock,
                   inv, log, runs, regs, lastBatch, faults, raised, progress_callback,
                   hook_threads, listening, settings, capture_threads, app_state, call>>

\* MacroManager.set_progress_callback(callback); main.py assigns
\* _macro_progress_callback in its setup and in close_app
SetProgressCallback(cb) ==
    /\ cb # progress_callback
    /\ progress_callback' = cb
    /\ UNCHANGED <<impl, records, hooks, nextHook, slot_hotkey_lookup, held_scancodes, lock,
                   auto_panel, inv, log, runs, regs, lastBatch, faults, raised,
                   hook_threads, listening, settings, capture_threads, app_state, call>>

\* a session in which the auto-panel setting changes while macros are
\* triggered and run; every key is pressed and not yet let go, and no
\* injection raises
PanelNext ==
    \/ \E b \in Batches : Register(b)
    \/ \E cfg \in PanelStates : SetAutoPanel(cfg)
    \/ \E e \in DownEvents : KeyDown(e)
    \/ \E i \in DOMAIN inv : Acquire(i)
    \/ \E i \in DOMAIN inv : Press(i)
    \/ \E i \in DOMAIN inv : Release(i)
    \/ \E i \in DOMAIN inv : Exit(i)
    \/ \E i \in DOMAIN inv : NotifyStop(i)

PanelSpec == Init /\ [][PanelNext]_vars

\* the callbacks set_progress_callback is given
Callbacks == {None} \cup {Some(o) : o \in Observers}

\* _notify_progress("stop", ...) on the worker thread, first statement:
\* cb = self._progress_callback
StopRead(i) ==
    /\ inv[i].pc = "stop"
    /\ inv' = [inv EXCEPT ![i].pc = "calling", ![i].cb = progress_callback]
    /\ UNCHANGED <<lock, log, faults>>
    /\ UNCHANGED WorkerUnchanged

\* _notify_progress("stop", ...), the rest: return if cb is None, else
\* cb(event, macro, slot, total_time) inside try/except
StopCall(i) ==
    /\ inv[i].pc = "calling"
    /\ log' = Append(log, [Notify("stop", i, inv[i].macro, inv[i].slot, None)
                               EXCEPT !.to = inv[i].cb])
    /\ inv' = [inv EXCEPT ![i].pc = "done"]
    /\ UNCHANGED <<lock, faults>>
    /\ UNCHANGED WorkerUnchanged

\* a session in which the UI thread replaces the progress callback while
\* macros are triggered and run; the worker's notifier is taken statement by
\* statement; every key is pressed and not yet let go, and no injection raises
ObsNext ==
    \/ \E b \in Batches : Register(b)
    \/ \E cb \in Callbacks : SetProgressCallback(cb)
    \/ \E e \in DownEvents : KeyDown(e)
    \/ \E i \in DOMAIN inv : Acquire(i)
    \/ \E i \in DOMAIN inv : Press(i)
    \/ \E i \in DOMAIN inv : Release(i)
    \/ \E i \in DOMAIN inv : Exit(i)
    \/ \E i \in DOMAIN inv : StopRead(i)
    \/ \E i \in DOMAIN inv : StopCall(i)

ObsSpec == Init /\ [][ObsNext]_vars

\* a worker is inside the with block and has pressed its first key
Running ==
    /\ lock # 0
    /\ inv[lock].pc \in {"press", "release"}
    /\ inv[lock].pc = "release" \/ inv[lock].idx > 1

\* a session in which the UI thread clears, rebuilds and reconfigures while a
\* worker is inside its run; no injection raises
LiveNext ==
    \/ \E b \in Batches : Register(b)
    \/ \E e \in DownEvents : KeyDown(e)
    \/ \E i \in DOMAIN inv : Acquire(i)
    \/ \E i \in DOMAIN inv : Press(i)
    \/ \E i \in DOMAIN inv : Release(i)
    \/ \E i \in DOMAIN inv : Exit(i)
    \/ \E i \in DOMAIN inv : NotifyStop(i)
    \/ Running /\ Clear
    \/ \E b \in Batches : Running /\ Rebuild(b)
    \/ \E cfg \in PanelConfigs : Running /\ SetAutoPanel(cfg)

LiveSpec == Init /\ [][LiveNext]_vars

\* the hook threads that are between the held-key test and the recording
Tested == {t \in HookThreads : hook_threads[t].pc = "tested"}

\* on_press of press hook h on hook thread t, up to and including the test
\* `event.scan_code in self._held_scancodes`: the call returns when the
\* numpad-origin test or the held-key test says so
HookTest(t, h, e) ==
    /\ hook_threads[t] = Idle
    /\ h \in PressHooks(e.scan_code)
    /\ Len(inv) + Cardinality(Tested) < MaxTriggers
    /\ hook_threads' =
           IF NumpadSuppressed(h.macro, e) \/ IsAutoRepeat(held_scancodes, e.scan_code)
           THEN hook_threads
           ELSE [hook_threads EXCEPT ![t] = [pc |-> "tested", macro |-> h.macro, e |-> e]]
    /\ runs' = [runs EXCEPT ![e.scan_code] =
                  [downs |-> IF @.downs = 0 THEN 1 ELSE 2,
                   disp |-> @.disp,
                   heldAtStart |-> IF @.downs = 0 THEN e.scan_code \in held_scancodes
                                   ELSE @.heldAtStart,
                   passed |-> @.passed \/ ~NumpadSuppressed(h.macro, e)]]
    /\ UNCHANGED <<impl, records, hooks, nextHook, slot_hotkey_lookup, held_scancodes, lock,
                   auto_panel, inv, log, regs, lastBatch, faults, raised, progress_callback,
                   listening, settings, capture_threads, app_state, call>>

\* the rest of on_press on hook thread t:
\* self._held_scancodes.add(event.scan_code); self._launch_macro(macro)
HookRecord(t) ==
    /\ hook_threads[t].pc = "tested"
    /\ LET sc == hook_threads[t].e.scan_code
           st == Launch([held |-> held_scancodes \cup {sc}, inv |-> inv, log |-> log],
                        hook_threads[t].macro)
       IN  /\ held_scancodes' = st.held
           /\ inv' = st.inv
           /\ log' = st.log
           /\ runs' = [runs EXCEPT ![sc].disp = @ + 1]
    /\ hook_threads' = [hook_threads EXCEPT ![t] = Idle]
    /\ UNCHANGED <<impl, records, hooks, nextHook, slot_hotkey_lookup, lock, auto_panel,
                   regs, lastBatch, faults, raised, progress_callback,
                   listening, settings, capture_threads, app_state, call>>

\* a session in which the keyboard collaborator delivers "down" events from
\* two threads at once: on_press is taken statement by statement, as the code
\* puts no lock around the held set; "up" events and workers as before
RaceNext ==
    \/ \E b \in Batches : Register(b)
    \/ \E t \in HookThreads : \E h \in hooks : \E e \in DownEvents : HookTest(t, h, e)
    \/ \E t \in HookThreads : HookRecord(t)
    \/ \E e \in UpEvents : KeyUp(e)
    \/ \E i \in DOMAIN inv : Acquire(i)
    \/ \E i \in DOMAIN inv : Press(i)
    \/ \E i \in DOMAIN inv : Release(i)
    \/ \E i \in DOMAIN inv : Exit(i)
    \/ \E i \in DOMAIN inv : NotifyStop(i)

RaceSpec == Init /\ [][RaceNext]_vars

\* ------------------------------------------------------------- application
\* a rebuild_listeners that builds whether the application listens or not
RebuildListenersOf_NoListeningTest(R, on, batch, epoch) ==
    rebuild_listeners(R, batch, epoch)

\* main.rebuild_listeners() as a whole: clear, and build only when listening
RebuildListenersOf(R, on, batch, epoch) ==
    IF on
    THEN rebuild_listeners(R, batch, epoch)
    ELSE [ClearMain(R) EXCEPT !.lookup = EmptyLookup]

TheRegistry == Registry(records, hooks, nextHook, slot_hotkey_lookup)

\* the registry a handler of the application window leaves behind
AppBecomes(R2) ==
    /\ regs < MaxAppOps
    /\ records' = R2.records
    /\ hooks' = R2.hooks
    /\ nextHook' = R2.next
    /\ slot_hotkey_lookup' = R2.lookup
    /\ raised' = R2.raised
    /\ regs' = regs + 1
    /\ UNCHANGED <<impl, held_scancodes, lock, auto_panel, inv, log, runs, faults,
                   progress_callback, hook_threads, app_state, call>>

\* a handler of the application window that leaves the registry alone
AppKeeps ==
    UNCHANGED <<impl, records, hooks, nextHook, slot_hotkey_lookup, held_scancodes, lock,
                auto_panel, inv, log, runs, regs, lastBatch, faults, raised,
                progress_callback, hook_threads, app_state, call>>

\* start_listening(), the application not listening; batch is what the slot
\* assignments and hotkeys give at that moment
StartListening(batch) ==
    /\ ~listening
    /\ listening' = TRUE
    /\ AppBecomes(RebuildListenersOf(TheRegistry, TRUE, batch, regs + 1))
    /\ lastBatch' = batch
    /\ UNCHANGED <<settings, capture_threads>>

\* stop_listening(), the application listening
StopListening ==
    /\ listening
    /\ listening' = FALSE
    /\ AppBecomes(ClearMain(TheRegistry))
    /\ UNCHANGED <<lastBatch, settings, capture_threads>>

\* choose_macro_for_slot, apply_and_stay, the template and profile loaders:
\* `if listening: rebuild_listeners()`
Reassign(batch) ==
    /\ listening
    /\ AppBecomes(RebuildListenersOf(TheRegistry, listening, batch, regs + 1))
    /\ lastBatch' = batch
    /\ UNCHANGED <<listening, settings, capture_threads>>

\* open_settings(): a new window with its own capturing = {"active": False}
OpenSettings(w) ==
    /\ ~settings[w].open
    /\ capture_threads[w] = None
    /\ settings' = [settings EXCEPT ![w] = [open |-> TRUE, capturing |-> FALSE]]
    /\ UNCHANGED <<listening, capture_threads>>
    /\ AppKeeps

\* the Close button of a settings window: settings.destroy
CloseSettings(w) ==
    /\ settings[w].open
    /\ settings' = [settings EXCEPT ![w].open = FALSE]
    /\ UNCHANGED <<listening, capture_threads>>
    /\ AppKeeps

\* start_capture(target, kind) of window w, no capture of that window active
StartCapture(w) ==
    /\ settings[w].open
    /\ ~settings[w].capturing
    /\ settings' = [settings EXCEPT ![w].capturing = TRUE]
    /\ capture_threads' = [capture_threads EXCEPT ![w] = Some(listening)]
    /\ IF listening
       THEN AppBecomes(ClearMain(TheRegistry)) /\ UNCHANGED lastBatch
       ELSE AppKeeps
    /\ UNCHANGED listening

\* what finish_capture does once the window of its buttons is destroyed: the
\* first btn.config raises and the callback ends there, or it runs through

\* the capture worker of window w hands its result over and finish_capture
\* runs on the UI thread: with a key, with an error or with nothing
FinishCapture(w, batch, outcome) ==
    /\ capture_threads[w] # None
    /\ capture_threads' = [capture_threads EXCEPT ![w] = None]
    /\ settings' = [settings EXCEPT ![w].capturing = FALSE]
    /\ IF capture_threads[w][1] /\ (settings[w].open \/ outcome = "runs")
       THEN /\ AppBecomes(RebuildListenersOf(TheRegistry, listening, batch, regs + 1))
            /\ lastBatch' = IF listening THEN batch ELSE lastBatch
       ELSE AppKeeps
    /\ UNCHANGED listening

\* main.py alone: the application window with its settings windows
AppInit == Init /\ impl = "main"

AppNext ==
    \/ \E b \in Batches : StartListening(b)
    \/ StopListening
    \/ \E b \in Batches : Reassign(b)
    \/ \E w \in Windows : OpenSettings(w)
    \/ \E w \in Windows : CloseSettings(w)
    \/ \E w \in Windows : StartCapture(w)
    \/ \E w \in Windows : \E b \in Batches : \E o \in {"raises", "runs"} :
           FinishCapture(w, b, o)
    \/ \E e \in DownEvents : KeyDown(e)

AppSpec == AppInit /\ [][AppNext]_vars

\* ------------------------------------------------- templates and the profile
\* a call of a function of stratagems.py or of a method of AppState leaves the
\* registry, the hooks, the workers and the windows alone
CallKeeps ==
    UNCHANGED <<impl, records, hooks, nextHook, slot_hotkey_lookup, held_scancodes, lock,
                auto_panel, inv, log, runs, regs, lastBatch, faults, raised,
                progress_callback, hook_threads, listening, settings, capture_threads>>

\* resolve_template_keys(template, direction_keys), the one call of a behaviour
Resolve(template, direction_keys) ==
    /\ call.op = "none"
    /\ call' = [op |-> "resolve_template_keys", template |-> template,
                direction_keys |-> direction_keys,
                result |-> resolve_template_keys(template, direction_keys)]
    /\ UNCHANGED app_state
    /\ CallKeeps

\* a template of up to MaxDirections directions, two of them with a
\* default binding and one without, and any of the three bound by the user to
\* a key or to the empty string
ResolveNext ==
    \E directions \in SeqsUpTo({d_Up, d_Down, <<"H", "o", "l", "d">>}, MaxDirections) :
    \E D \in SUBSET {d_Up, d_Down, <<"H", "o", "l", "d">>} :
    \E direction_keys \in [D -> {<<>>, <<"w">>}] :
        Resolve(MacroTemplate("A", directions, DEFAULT_DELAY, "Stratagems"),
                direction_keys)

ResolveSpec == AppInit /\ [][ResolveNext]_vars

\* a key that a profile, or a section of it, does not have
Absent == [t |-> "absent"]

\* the dict of the entries of f that are not Absent
Present(f) == Dict([k \in {x \in DOMAIN f : f[x].t # "absent"} |-> f[k]])

\* the profiles given to apply_profile. Timing sections: absent, zero and
\* positive numbers, a negative delay, a negative duration, numeric strings, a
\* string that is no number, null, a bool, an int too large for a float, and a
\* section that is no dict, each in a profile that has nothing else or a
\* "slots" section that is no dict. Then every combination of the slots (a
\* known name, null, a name no template has), the hotkeys and the direction
\* keys (with blanks around them, blank, no string, or a section that is no
\* dict), the rest set or absent; and every combination of the panel and the
\* overlay (an opacity above the range, below it, no number, too large for a
\* float, a section that is no dict), the rest set or absent
Profiles ==
    LET Profile(sl, hk, dk, ti, pa, ov) ==
            Present([slots |-> sl, hotkeys |-> hk, direction_keys |-> dk,
                     timing |-> ti, panel |-> pa, overlay |-> ov])
        SetSlots == Dict(("7" :> Str("A")) @@ ("8" :> PyNone))
        SetHotkeys ==
            Dict(("7" :> Str(<<" ", "n", "u", "m", " ", "8", " ">>))
                 @@ ("8" :> Str(<<" ", " ">>)))
        SetDirections == Dict((d_Up :> Str(<<" ", "w">>)) @@ (d_Down :> Num(3)))
        SetTiming == Present([delay |-> Num(0), duration |-> Num(20)])
        SetPanel == Present([key |-> Str(<<" ", "H", " ">>), auto |-> Bool(FALSE)])
        SetOverlay == Present([lock_key |-> Str(<<" ", "h", " ">>), opacity |-> Num(1500)])
        TimingOptions ==
            { Absent, SetTiming,
              Present([delay |-> Num(0 - 10), duration |-> Num(20)]),
              Present([delay |-> Num(70), duration |-> Num(0 - 1)]),
              Present([delay |-> Str(<<" ", "2", " ">>), duration |-> Absent]),
              Present([delay |-> Str(<<"-", "1">>), duration |-> Num(20)]),
              Present([delay |-> Num(70), duration |-> Str(<<"x">>)]),
              Present([delay |-> Absent, duration |-> PyNone]),
              Present([delay |-> Bool(TRUE), duration |-> Absent]),
              Present([delay |-> Huge, duration |-> Num(20)]),
              Str(<<"x">>) }
        SlotsOptions ==
            { Absent, SetSlots, Dict(("7" :> Str("Z")) @@ ("8" :> Str("B"))) }
        PanelOptions ==
            { Absent, SetPanel, Present([key |-> Str(<<" ">>), auto |-> Num(1)]) }
        OverlayOptions ==
            { SetOverlay,
              Present([lock_key |-> Absent, opacity |-> Num(50)]),
              Present([lock_key |-> Str(<<" ">>), opacity |-> Str(<<"x">>)]),
              Present([lock_key |-> Str(<<"h">>), opacity |-> Huge]),
              Num(1) }
    IN { Profile(sl, Absent, Absent, ti, Absent, Absent) :
            sl \in {Absent, Num(5)}, ti \in TimingOptions }
       \cup
       { Profile(sl, hk, dk, SetTiming, pa, SetOverlay) :
            sl \in SlotsOptions, hk \in {SetHotkeys, Num(1)},
            dk \in {Absent, SetDirections}, pa \in {Absent, SetPanel} }
       \cup
       { Profile(sl, SetHotkeys, SetDirections, Absent, pa, ov) :
            sl \in {Absent, SetSlots}, pa \in PanelOptions, ov \in OverlayOptions }

\* AppState.reset()
Reset ==
    /\ app_state' = reset
    /\ call' = [op |-> "reset"]
    /\ CallKeeps

\* AppState.apply_profile(data, templates); the call keeps the "timing"
\* section it was given and the timing it found
ApplyProfile(data) ==
    LET done == apply_profile(app_state, data, templates)
    IN /\ app_state' = done.state
       /\ call' = [op |-> "apply_profile", timing |-> Get(data, "timing", Absent),
                   before |-> <<app_state.macro_delay, app_state.macro_duration>>,
                   missing |-> done.missing, raised |-> done.raised]
       /\ CallKeeps

\* apply_profile(serialize(), templates); the call keeps the state it found
RoundTrip ==
    LET done == apply_profile(app_state, serialize(app_state), templates)
    IN /\ app_state' = done.state
       /\ call' = [op |-> "round_trip", before |-> app_state,
                   missing |-> done.missing, raised |-> done.raised]
       /\ CallKeeps

StateNext ==
    \/ Reset
    \/ \E data \in Profiles : ApplyProfile(data)
    \/ RoundTrip

\* the panel configuration of the manager plays no part in these calls
StateInit == AppInit /\ auto_panel.key = <<" ">>

StateSpec == StateInit /\ [][StateNext]_vars

\* ---------------------------------------------------------------- observations
IsKeyEvent(x) == x.kind \in {"press", "release"}

\* the simulated key events, in injection order
KeyLog == SelectSeq(log, IsKeyEvent)

Positions(i, kinds) == {p \in DOMAIN log : log[p].inv = i /\ log[p].kind \in kinds}

HasPressed(i) == Positions(i, {"press"}) # {}

\* the key events of invocation i as <<kind, key>> pairs, in order
RECURSIVE KeyEventsOf(_, _)
KeyEventsOf(i, l) ==
    IF l = <<>>
    THEN <<>>
    ELSE IF Head(l).inv = i /\ IsKeyEvent(Head(l))
         THEN <<<<Head(l).kind, Head(l).key>>>> \o KeyEventsOf(i, Tail(l))
         ELSE KeyEventsOf(i, Tail(l))

\* the press/release pairs a full run of invocation i injects
ExpectedKeyEvents(i) ==
    LET s == SeqOf(i)
    IN  [n \in 1..(2 * Len(s)) |->
            <<IF n % 2 = 1 THEN "press" ELSE "release", s[(n + 1) \div 2]>>]

IsPrefix(a, b) == Len(a) <= Len(b) /\ SubSeq(b, 1, Len(a)) = a

\* ---------------------------------------------------------------- claims

\* C1: at most one macro run injects key events at any instant: between two key
\* events of one run there is no key event of another run.
C1_OneRunPressesAtATime ==
    LET K == KeyLog
    IN  \A a, c \in DOMAIN K :
            (a + 1 < c /\ K[a].inv = K[c].inv) => K[a + 1].inv = K[a].inv

\* two runs contended for the lock (the second was started while the first held
\* it or was about to take it) and both injected keys
C1_Witness ==
    \E i, j \in DOMAIN inv :
        /\ i # j
        /\ inv[j].lockedAt = i \/ i \in inv[j].pendingAt
        /\ HasPressed(i)
        /\ HasPressed(j)

\* C2 as stated: a trigger that reaches the dispatcher while a running macro
\* holds the lock emits no "start", never injects a key, and the holder's key
\* sequence is unchanged.
C2_DroppedWhileLocked ==
    \A b \in DOMAIN inv :
        inv[b].lockedAt # 0 =>
            /\ Positions(b, {"start", "press", "release", "stop"}) = {}
            /\ inv[b].pc = "dropped"
            /\ IsPrefix(KeyEventsOf(inv[b].lockedAt, log), ExpectedKeyEvents(inv[b].lockedAt))

\* C2 restricted to main.py's dispatcher, which tests _macro_lock.locked()
C2_DroppedWhileLocked_main == impl = "main" => C2_DroppedWhileLocked

\* C3 as stated: of two triggers for distinct hotkeys where the second reaches
\* the dispatcher after the first was accepted and before the first's worker
\* took the lock, only one runs and neither waits on the lock for the other.
C3_RaceLoserDropped ==
    \A a, b \in DOMAIN inv :
        (/\ a \in inv[b].pendingAt
         /\ Lower(inv[a].macro.hotkey) # Lower(inv[b].macro.hotkey)) =>
            /\ ~(HasPressed(a) /\ HasPressed(b))
            /\ ~(lock = a /\ inv[b].pc = "spawned")
            /\ ~(lock = b /\ inv[a].pc = "spawned")

\* C4: the lock is held only by a worker inside the with block; a worker that
\* left it (normally or because an injection raised) does not hold the lock,
\* and no trigger arriving after a worker ended finds the lock held by it.
C4_LockFreeAfterWorker ==
    /\ lock # 0 => lock \in DOMAIN inv /\ inv[lock].pc \in {"press", "release", "exit"}
    /\ \A i \in DOMAIN inv : inv[i].pc \in {"stop", "done", "dropped", "spawned"} => lock # i
    /\ \A i, j \in DOMAIN inv : i \in inv[j].doneAt => inv[j].lockedAt # i

\* an injection of run i raised, i ended, and a later trigger j ran its keys
C4_Witness ==
    \E i, j \in DOMAIN inv :
        /\ inv[i].failed
        /\ i \in inv[j].doneAt
        /\ inv[j].lockedAt = 0
        /\ HasPressed(j)
        /\ inv[j].pc = "done"

Started(i) == Positions(i, {"start"}) # {}

Stopped(i) == Positions(i, {"stop"}) # {}

\* at most one "stop" per invocation, and it names the slot of the "start"
StopMatchesStart ==
    \A i \in DOMAIN inv :
        /\ Cardinality(Positions(i, {"stop"})) <= 1
        /\ Cardinality(Positions(i, {"start"})) <= 1
        /\ \A p \in Positions(i, {"stop"}) :
               \E q \in Positions(i, {"start"}) : log[q].slot = log[p].slot

\* C5: every "start" notification is eventually followed by a "stop" for the
\* same slot, and by no more than one, whether the run completes or raises.
C5_StartThenOneStop ==
    /\ []StopMatchesStart
    /\ \A i \in 1..MaxTriggers : Started(i) ~> Stopped(i)

\* a run that raised has its "start" and its one "stop"
C5_Witness ==
    \E i \in DOMAIN inv :
        /\ inv[i].failed
        /\ Cardinality(Positions(i, {"start"})) = 1
        /\ Cardinality(Positions(i, {"stop"})) = 1

\* C6: per invocation, "start" (with a total_time) comes first, the key events
\* of the sequence follow in order, and "stop" (total_time None) comes last,
\* after the last key-up of a run that did not raise.
C6_StartKeysStopInOrder ==
    \A i \in DOMAIN inv :
        /\ \A p \in Positions(i, {"press", "release", "stop"}) :
               \E q \in Positions(i, {"start"}) : q < p
        /\ \A p \in Positions(i, {"stop"}) :
               /\ \A q \in Positions(i, {"start", "press", "release"}) : q < p
               /\ log[p].total = None
               /\ ~inv[i].failed => KeyEventsOf(i, log) = ExpectedKeyEvents(i)
        /\ \A q \in Positions(i, {"start"}) : log[q].total # None
        /\ IsPrefix(KeyEventsOf(i, log), ExpectedKeyEvents(i))

\* a run of three keys (panel key and two macro keys) is complete: start, the
\* three press/release pairs, stop
C6_Witness ==
    \E i \in DOMAIN inv :
        /\ inv[i].pc = "done"
        /\ ~inv[i].failed
        /\ Len(SeqOf(i)) = 3
        /\ Len(KeyEventsOf(i, log)) = 6
        /\ Stopped(i)

\* C7 as stated: the "down" events handed to a press hook for one scan code
\* since its last "up" dispatch exactly one trigger, however many they are.
C7_ExactlyOneDispatch ==
    \A sc \in ScanCodes : runs[sc].downs >= 1 => runs[sc].disp = 1

\* C7 amended: they dispatch exactly one trigger when one of them passes the
\* numpad-origin test and the scan code was not recorded as held before the
\* first of them, and none otherwise.
C7_OneDispatchPerHeldKey ==
    \A sc \in ScanCodes :
        runs[sc].downs >= 1 =>
            runs[sc].disp = IF runs[sc].passed /\ ~runs[sc].heldAtStart THEN 1 ELSE 0

\* several "down" events of one key, one trigger
C7_Witness ==
    \E sc \in ScanCodes : runs[sc].downs = 2 /\ runs[sc].disp = 1 /\ sc \in held_scancodes

\* C8: an "up" event handed to a release hook removes its scan code from the
\* held set, whatever the event's keypad flag and whether or not the code was
\* held, and changes neither the invocations nor the log.
C8_UpOnlyUnholds ==
    [][\A e \in UpEvents :
          (KeyUp(e) /\ ReleaseHooks(e.scan_code) # {}) =>
              /\ held_scancodes' = held_scancodes \ {e.scan_code}
              /\ inv' = inv
              /\ log' = log]_vars

\* a key that dispatched a trigger is no longer recorded as held
C8_Witness ==
    \E i \in DOMAIN inv : ScanOf(inv[i].macro.hotkey) \notin held_scancodes

\* C9: for the one press hook of a "num " hotkey, a "down" with is_keypad False,
\* or with is_keypad undetermined and an arrow name, changes nothing; any other
\* "down" of a scan code that is not held records it and dispatches the macro.
C9_NumpadOriginFilter ==
    [][\A e \in DownEvents : \A h \in PressHooks(e.scan_code) :
          (/\ KeyDown(e)
           /\ PressHooks(e.scan_code) = {h}
           /\ StartsWith(h.macro.hotkey, NumPrefix)) =>
              IF \/ e.is_keypad = "False"
                 \/ e.is_keypad = "None" /\ e.name \in {k_up, k_down, k_left, k_right}
              THEN /\ inv' = inv
                   /\ log' = log
                   /\ held_scancodes' = held_scancodes
              ELSE e.scan_code \notin held_scancodes =>
                       /\ Len(inv') = Len(inv) + 1
                       /\ inv'[Len(inv')].macro = h.macro
                       /\ e.scan_code \in held_scancodes']_vars

\* a "num " hotkey whose only "down" events so far were suppressed, next to one
\* whose "down" was dispatched
C9_Witness ==
    \E sc, sd \in ScanCodes :
        /\ runs[sc].downs >= 1 /\ ~runs[sc].passed /\ runs[sc].disp = 0
        /\ \A h \in PressHooks(sc) : StartsWith(h.macro.hotkey, NumPrefix)
        /\ runs[sd].disp = 1
        /\ \A h \in PressHooks(sd) : StartsWith(h.macro.hotkey, NumPrefix)

\* the indices of a batch whose lowercased hotkey does not occur earlier in it
Kept(b) ==
    {k \in DOMAIN b :
        \A j \in 1..(k - 1) : Lower(b[j].macro.hotkey) # Lower(b[k].macro.hotkey)}

RECURSIVE KeptNames(_, _)
KeptNames(b, k) ==
    IF k > Len(b)
    THEN <<>>
    ELSE (IF k \in Kept(b) THEN <<b[k].macro.name>> ELSE <<>>) \o KeptNames(b, k + 1)

\* the records are the batch's first entries per lowercased hotkey, in order,
\* each with both hooks subscribed; a skipped entry got no hook in this build
RegisteredFirstOnly(b) ==
    /\ [k \in DOMAIN records |-> records[k].macro.name] = KeptNames(b, 1)
    /\ \A k \in DOMAIN records :
           /\ \E h \in hooks : h.id = records[k].handle[1] /\ h.kind = "press"
           /\ \E h \in hooks : h.id = records[k].handle[2] /\ h.kind = "release"
    /\ \A k \in DOMAIN b \ Kept(b) :
           \A h \in hooks : h.epoch = regs => h.macro.name # b[k].macro.name

\* C10: a build whose batch holds hotkeys that collide case-insensitively
\* registers the first of them only, and still processes the rest of the batch.
C10_DuplicateHotkeySkipped ==
    [][\A b \in Batches : Register(b) => RegisteredFirstOnly(b)']_vars

\* "Num 7" and "NUM 7" in one batch: the first and the third entry are
\* registered, the second is not
C10_Witness ==
    /\ regs >= 1
    /\ lastBatch[1].macro.hotkey = h_Num7
    /\ lastBatch[2].macro.hotkey = h_NUM7
    /\ [k \in DOMAIN records |-> records[k].macro.name] = <<"A", "C">>

\* no entry of the batch has a hotkey the keyboard collaborator rejects
Accepted(b) == \A k \in DOMAIN b : ~Rejected(b[k].macro.hotkey)

\* the registry holds what the latest operation, a build from batch b, put
\* there and nothing else: the records are b's first entries per lowercased
\* hotkey, in order, with their keys; every live hook was subscribed by this
\* build and belongs to a record; every lookup entry is a hotkey of b
FullReplace(b) ==
    /\ [k \in DOMAIN records |-> records[k].macro.name] = KeptNames(b, 1)
    /\ \A k \in DOMAIN records : \E j \in Kept(b) :
           /\ b[j].macro.name = records[k].macro.name
           /\ b[j].macro.keys = records[k].macro.keys
           /\ Lower(b[j].macro.hotkey) = Lower(records[k].macro.hotkey)
    /\ \A h \in hooks :
           /\ h.epoch = regs
           /\ \E k \in DOMAIN records : h.id \in {records[k].handle[1], records[k].handle[2]}
    /\ DOMAIN slot_hotkey_lookup = {Lower(b[k].macro.hotkey) : k \in DOMAIN b}
    /\ \A x \in DOMAIN slot_hotkey_lookup :
           \E k \in DOMAIN b : Lower(b[k].macro.hotkey) = x /\ b[k].slot = slot_hotkey_lookup[x]

\* C11 as stated: a build from a batch whose hotkeys the collaborator accepts
\* is a full replace: afterwards the records are the batch's non-duplicate
\* entries in batch order, and no record, hook or lookup entry of an earlier
\* registration is left.
C11_FullReplace ==
    [][\A b \in RegBatches : (Rebuild(b) /\ Accepted(b)) => FullReplace(b)']_vars

\* C11 restricted to macro_manager.MacroManager, whose clear() unhooks both
\* hooks of a record
C11_FullReplace_mm ==
    [][\A b \in RegBatches :
          (impl = "mm" /\ Rebuild(b) /\ Accepted(b)) => FullReplace(b)']_vars

\* clear() left no record, unsubscribed both hooks of every record it found,
\* and a clear() of what it left changes nothing
Cleared ==
    /\ records' = <<>>
    /\ \A k \in DOMAIN records : \A h \in hooks' :
           h.id # records[k].handle[1] /\ h.id # records[k].handle[2]
    /\ LET R2 == Registry(records', hooks', nextHook', slot_hotkey_lookup')
       IN  ClearOf(R2) = R2

\* C12 as stated: clear() unsubscribes the down- and the up-handler of every
\* record and empties the records; a second clear() changes nothing; and while
\* the registry is cleared no "down" event launches a macro.
C12_ClearReleasesAll ==
    [][/\ Clear => Cleared
       /\ \A e \in DownEvents :
              (KeyDown(e) /\ records = <<>>) => (inv' = inv /\ log' = log)]_vars

\* C12 restricted to macro_manager.MacroManager
C12_ClearReleasesAll_mm ==
    [][impl = "mm" =>
          /\ Clear => Cleared
          /\ \A e \in DownEvents :
                 (KeyDown(e) /\ records = <<>>) => (inv' = inv /\ log' = log)]_vars

\* what both implementations do keep of C12: after clear() the records are
\* empty, no press hook is subscribed, and a second clear() changes nothing
C12_NoPressHookAfterClear ==
    [][Clear =>
          /\ records' = <<>>
          /\ \A h \in hooks' : h.kind # "press"
          /\ LET R2 == Registry(records', hooks', nextHook', slot_hotkey_lookup')
             IN  ClearOf(R2) = R2]_vars

\* the ids of the hooks subscribed at the keyboard collaborator
LiveIds == {h.id : h \in hooks}

\* the ids stored in the handles of the records
HandleIds == UNION {{records[k].handle[1], records[k].handle[2]} : k \in DOMAIN records}

\* C13 as stated: the hooks subscribed at the keyboard collaborator are exactly
\* the handles stored in the records: both hooks of every record are
\* subscribed, and no other subscription exists.
C13_HooksAreRecords ==
    /\ \A k \in DOMAIN records :
           /\ \E h \in hooks : h.id = records[k].handle[1] /\ h.kind = "press"
           /\ \E h \in hooks : h.id = records[k].handle[2] /\ h.kind = "release"
    /\ LiveIds = HandleIds

\* C13 restricted to macro_manager.MacroManager
C13_HooksAreRecords_mm == impl = "mm" => C13_HooksAreRecords

\* C14 as stated: a rebuild of the listener set leaves the held-key set empty,
\* so no scan code recorded as held before the rebuild is still recorded as
\* held after it.
C14_HeldEmptyAfterRebuild ==
    [][(\E b \in RegBatches : Rebuild(b)) => held_scancodes' = {}]_vars

\* the stale entry of C14 at work in macro_manager.MacroManager: the key of a
\* registered hotkey is not recorded as held by any "down" since its last "up"
\* (the latest "down" events were none, or all dispatched nothing), and yet it
\* is in the held set, so its next "down" is taken for an auto-repeat
C14_StaleHeldKey ==
    \E sc \in ScanCodes :
        /\ impl = "mm"
        /\ PressHooks(sc) # {}
        /\ runs[sc].downs = 0
        /\ sc \in held_scancodes

\* C15: no two records have hotkeys that are equal case-insensitively.
C15_HotkeysUnique ==
    \A i, j \in DOMAIN records :
        i # j => Lower(records[i].macro.hotkey) # Lower(records[j].macro.hotkey)

\* two records are registered and the latest operation asked for "Num 7" or
\* "Num 8", which differs from a registered hotkey by case only, and was refused
C15_Witness ==
    /\ Len(records) = 2
    /\ raised \in {ValueErrorInUse(h_num7), ValueErrorInUse(h_num8)}

\* C16 as stated: the hotkey of every macro stored in a record, and of every
\* macro a press or release hook was given, is lowercase.
C16_StoredHotkeyLowercase ==
    /\ \A k \in DOMAIN records : records[k].macro.hotkey = Lower(records[k].macro.hotkey)
    /\ \A h \in hooks : h.macro.hotkey = Lower(h.macro.hotkey)

\* C16 restricted to main.py, whose add_macro and update_macro build a
\* normalized Macro
C16_StoredHotkeyLowercase_main == impl = "main" => C16_StoredHotkeyLowercase

\* what C16 is relied on for: a "down" that is not from the keypad launches
\* nothing when every press hook of its scan code is for a hotkey that is a
\* "num " hotkey up to case
C16_NumpadFilterSeesPrefix ==
    [][\A e \in DownEvents :
          (/\ KeyDown(e)
           /\ e.is_keypad = "False"
           /\ \A h \in PressHooks(e.scan_code) :
                  StartsWith(Lower(h.macro.hotkey), NumPrefix)) => inv' = inv]_vars

\* the names of the entries of b, from the k-th on, that are the first of their
\* lowercased hotkey and whose hotkey the keyboard collaborator accepts
RECURSIVE ValidNames(_, _)
ValidNames(b, k) ==
    IF k > Len(b)
    THEN <<>>
    ELSE (IF k \in Kept(b) /\ ~Rejected(b[k].macro.hotkey) THEN <<b[k].macro.name>> ELSE <<>>)
         \o ValidNames(b, k + 1)

\* the build from b ended without an exception, registered every valid entry
\* of b, before and after a rejected one, with both hooks, and left no record
\* and no hook for a rejected entry
RejectedSkippedOnly(b) ==
    /\ raised = None
    /\ [k \in DOMAIN records |-> records[k].macro.name] = ValidNames(b, 1)
    /\ \A k \in DOMAIN records :
           /\ \E h \in hooks : h.id = records[k].handle[1] /\ h.kind = "press"
           /\ \E h \in hooks : h.id = records[k].handle[2] /\ h.kind = "release"
    /\ \A k \in DOMAIN b :
           Rejected(b[k].macro.hotkey) =>
               \A h \in hooks : h.epoch = regs => h.macro.name # b[k].macro.name

\* C17 as stated: a build whose batch holds a hotkey the keyboard collaborator
\* rejects skips that entry only: no exception escapes, every other valid entry
\* is registered, and nothing is left of the rejected entry.
C17_RejectedHotkeySkipped ==
    [][\A b \in RegBatches :
          (Rebuild(b) /\ ~Accepted(b)) => RejectedSkippedOnly(b)']_vars

\* C17 restricted to main.rebuild_listeners, which catches the ValueError
C17_RejectedHotkeySkipped_main ==
    [][\A b \in RegBatches :
          (impl = "main" /\ Rebuild(b) /\ ~Accepted(b)) => RejectedSkippedOnly(b)']_vars

\* the operation failed with exc and left the records and the hooks alone
FailedWith(exc) ==
    /\ raised' = exc
    /\ records' = records
    /\ hooks' = hooks

\* C18: update_macro and remove_macro with an index outside 0..len(records)-1
\* fail with IndexError and leave the records and the hooks unchanged.
C18_BadIndexRejected ==
    [][\A i \in Indices :
          ~(0 <= i /\ i <= Len(records) - 1) =>
              /\ \A m \in RegMacros : UpdateMacro(i, m) => FailedWith(IndexError)
              /\ RemoveMacro(i) => FailedWith(IndexError)]_vars

\* an operation on two records was refused for its index
C18_Witness ==
    /\ raised = IndexError
    /\ Len(records) = 2
    /\ \A k \in DOMAIN records :
           /\ \E h \in hooks : h.id = records[k].handle[1]
           /\ \E h \in hooks : h.id = records[k].handle[2]

\* the positions (from 0) of the records whose hotkey is the lowercased hotkey
\* of macro m
HoldersOf(m) == {k \in 0..(Len(records) - 1) : records[k + 1].macro.hotkey = Lower(m.hotkey)}

\* update_macro(i, m) replaced record i by the normalized m with a fresh pair
\* of hooks and left the other records alone
Updated(i, m) ==
    /\ raised' = None
    /\ Len(records') = Len(records)
    /\ records'[i + 1].macro = Macro(Lower(m.hotkey), m.keys, m.delay, m.duration, m.name)
    /\ \A k \in DOMAIN records : k # i + 1 => records'[k] = records[k]
    /\ \E h \in hooks' \ hooks : h.id = records'[i + 1].handle[1] /\ h.kind = "press"
    /\ \E h \in hooks' \ hooks : h.id = records'[i + 1].handle[2] /\ h.kind = "release"

\* C19: add_macro(m), and update_macro(i, m) for a hotkey that a record other
\* than i holds, fail with a ValueError that names the lowercased hotkey and
\* leave the records and the hooks unchanged; update_macro(i, m) with record
\* i's own hotkey succeeds.
C19_DuplicateHotkeyRejected ==
    [][\A m \in RegMacros :
          /\ (AddMacro(m) /\ HoldersOf(m) # {}) =>
                 FailedWith(ValueErrorInUse(Lower(m.hotkey)))
          /\ \A i \in 0..(Len(records) - 1) :
                 /\ (UpdateMacro(i, m) /\ HoldersOf(m) \ {i} # {}) =>
                        FailedWith(ValueErrorInUse(Lower(m.hotkey)))
                 /\ (UpdateMacro(i, m) /\ HoldersOf(m) = {i}) => Updated(i, m)]_vars

\* record 0 of two was updated to "Num 7", its own hotkey up to case, and
\* then an add_macro of the same hotkey was refused
C19_Witness ==
    /\ [k \in DOMAIN records |-> records[k].macro.name] = <<"D", "B">>
    /\ records[1].macro.hotkey = h_num7
    /\ raised = ValueErrorInUse(h_num7)

\* the keys invocation i pressed, in the order of the presses
RECURSIVE PressedKeys(_, _)
PressedKeys(i, l) ==
    IF l = <<>>
    THEN <<>>
    ELSE (IF Head(l).inv = i /\ Head(l).kind = "press" THEN <<Head(l).key>> ELSE <<>>)
         \o PressedKeys(i, Tail(l))

\* C20: a run with a non-empty panel key presses the panel key first and then
\* the macro's keys in their order; a run with no panel key presses exactly
\* the macro's keys.  A run that is under way or raised has pressed a prefix.
C20_PanelKeyFirst ==
    \A i \in DOMAIN inv :
        LET pressed == PressedKeys(i, log)
            due == IF inv[i].panel = None \/ inv[i].panel = <<>>
                   THEN inv[i].macro.keys
                   ELSE <<inv[i].panel>> \o inv[i].macro.keys
        IN  /\ IsPrefix(pressed, due)
            /\ (inv[i].pc \in {"stop", "done"} /\ ~inv[i].failed) => pressed = due

\* the macro with keys (up, down) ran with panel key h and pressed h, up, down
C20_Witness ==
    \E i \in DOMAIN inv :
        /\ inv[i].pc = "done"
        /\ inv[i].macro.keys = <<k_up, k_down>>
        /\ inv[i].panel = <<"h">>
        /\ PressedKeys(i, log) = <<<<"h">>, k_up, k_down>>

\* C21: within one run the injected events alternate key-down, key-up of the
\* same key: a key is released before the next is pressed, at most one of the
\* run's keys is down at any time, and a run that completed normally has
\* released every key it pressed.
C21_DownUpAlternate ==
    \A i \in DOMAIN inv :
        LET K == KeyEventsOf(i, log)
        IN  /\ \A n \in DOMAIN K :
                   IF n % 2 = 1
                   THEN K[n][1] = "press"
                   ELSE K[n][1] = "release" /\ K[n][2] = K[n - 1][2]
            /\ (inv[i].pc \in {"stop", "done"} /\ ~inv[i].failed) => Len(K) % 2 = 0

\* a run of two keys completed: down up, up up, down down, up down
C21_Witness ==
    \E i \in DOMAIN inv :
        /\ inv[i].pc = "done"
        /\ ~inv[i].failed
        /\ KeyEventsOf(i, log) =
               <<<<"press", k_up>>, <<"release", k_up>>,
                 <<"press", k_down>>, <<"release", k_down>>>>

\* C22: the total_time of a "start" notification is the number of keys of the
\* run, the panel key included when one is prepended, times duration + delay;
\* 5 keys with delay 50 ms, duration 50 ms and a panel key give 6 * 100 ms.
C22_TotalTime ==
    /\ \A p \in DOMAIN log :
           log[p].kind = "start" =>
               LET i == log[p].inv
                   n == Len(inv[i].macro.keys) + (IF inv[i].panel # None THEN 1 ELSE 0)
               IN  log[p].total = Some(n * (inv[i].macro.duration + inv[i].macro.delay))
    /\ TotalTime(Macro(h_num7, <<k_up, k_down, k_left, k_right, k_up>>, 50, 50, "E"),
                 <<"h">>) = 600
    /\ TotalTime(Macro(h_num7, <<k_up, k_down>>, 20, 30, "E"), None) = 100

\* a macro of two keys was started with a panel key: 3 * 20 ms
C22_Witness ==
    \E p \in DOMAIN log :
        /\ log[p].kind = "start"
        /\ inv[log[p].inv].panel = <<"h">>
        /\ Len(inv[log[p].inv].macro.keys) = 2
        /\ log[p].total = Some(60)

\* the configured key has a character that is not white space
NonBlank(key) == \E n \in DOMAIN key : key[n] # " "

\* C23: a trigger captures a panel key if and only if, at that moment, auto
\* panel is enabled and the configured key is not empty after trimming; the
\* run then presses the captured key before the macro's keys, and a run with
\* no captured key presses the macro's keys only.
C23_PanelDecision ==
    /\ [][\A e \in DownEvents :
            (/\ KeyDown(e)
             /\ Len(inv') = Len(inv) + 1
             /\ inv'[Len(inv')].pc = "spawned") =>
                LET new == inv'[Len(inv')]
                IN  /\ new.panel # None <=> (auto_panel.enabled /\ NonBlank(auto_panel.key))
                    /\ new.panel # None =>
                           /\ NonBlank(new.panel)
                           /\ new.panel[1] # " " /\ new.panel[Len(new.panel)] # " "
                           /\ \E n \in 1..Len(auto_panel.key) :
                                  SubSeq(auto_panel.key, n, n + Len(new.panel) - 1) = new.panel]_vars
    /\ []C20_PanelKeyFirst

\* one macro ran with the panel key h first, and one, triggered while auto
\* panel was disabled, ran with its own keys only
C23_Witness ==
    \E i, j \in DOMAIN inv :
        /\ inv[i].pc = "done" /\ inv[i].panel = <<"h">>
        /\ PressedKeys(i, log)[1] = <<"h">>
        /\ inv[j].pc = "done" /\ inv[j].panel = None
        /\ inv[j].macro.keys # <<>>
        /\ PressedKeys(j, log) = inv[j].macro.keys
        /\ ~auto_panel.enabled

\* what a handler of the hook thread leaves alone: the lock, the position of
\* every worker, and the injected key events
HookThreadOnly ==
    /\ lock' = lock
    /\ \A i \in DOMAIN inv : inv'[i] = inv[i]
    /\ SelectSeq(log', IsKeyEvent) = KeyLog
    /\ \A i \in DOMAIN inv' \ DOMAIN inv : inv'[i].pc \in {"spawned", "dropped"}

\* a worker holds the lock or waits for it
InFlight == lock # 0 \/ \E i \in DOMAIN inv : inv[i].pc = "spawned"

\* the steps of the hook thread are those that change the held set, the record
\* of the "down" events of a key, or the number of dispatcher calls: KeyDown
\* and KeyUp change nothing else, and no other action changes any of them
HookThreadStep ==
    \/ held_scancodes' # held_scancodes
    \/ runs' # runs
    \/ Len(inv') # Len(inv)

\* C24: the handling of a "down" or an "up" returns to the hook thread without
\* taking or waiting for the lock and without playing a key: it leaves the
\* lock and every worker where they are, and while a worker holds the lock or
\* waits for it the hook thread can still handle any "down" and any "up".
C24_HookThreadNeverBlocks ==
    /\ [][HookThreadStep => HookThreadOnly]_vars
    /\ [](InFlight => \A e \in UpEvents : ENABLED KeyUp(e))
    /\ []((InFlight /\ Len(inv) < MaxTriggers) => \A e \in DownEvents : ENABLED KeyDown(e))

\* while one worker held the lock in the middle of its keys, the hook thread
\* handled a further "down" that reached the dispatcher, and the worker is
\* still in the middle of its keys
C24_Witness ==
    \E i, j \in DOMAIN inv :
        /\ lock = i
        /\ inv[i].pc \in {"press", "release"}
        /\ inv[j].lockedAt = i
        /\ inv[j].pc \in {"spawned", "dropped"}

\* the callbacks that received a notification of one of the kinds for run i
ReceiversOf(i, kinds) == {log[p].to : p \in Positions(i, kinds)}

\* C25: an exception the observer raises is discarded.  A trigger whose "start"
\* went to a raising observer is launched all the same, its run presses its
\* full key sequence, and its "stop" is emitted; a worker whose "stop" went to
\* a raising observer does not hold the lock, and a trigger that arrives after
\* it is launched.
C25_ObserverErrorDiscarded ==
    \A i \in DOMAIN inv :
        /\ (\E cb \in ReceiversOf(i, {"start"}) : Raises(cb)) =>
               /\ inv[i].pc # "raised"
               /\ inv[i].pc \in {"stop", "calling", "done"} =>
                      PressedKeys(i, log) =
                          (IF inv[i].panel # None THEN <<inv[i].panel>> ELSE <<>>)
                          \o inv[i].macro.keys
               /\ inv[i].pc = "done" => Stopped(i)
        /\ (\E cb \in ReceiversOf(i, {"stop"}) : Raises(cb)) =>
               /\ lock # i
               /\ \A j \in DOMAIN inv :
                      (i \in inv[j].doneAt /\ inv[j].lockedAt = 0) =>
                          inv[j].pc \notin {"dropped", "raised"}

\* the observer raised on the "start" and on the "stop" of a run that pressed
\* its keys, and a trigger that came after that run has run to its end too
C25_Witness ==
    \E i, j \in DOMAIN inv :
        /\ ReceiversOf(i, {"start"}) = {Some("faulty")}
        /\ ReceiversOf(i, {"stop"}) = {Some("faulty")}
        /\ PressedKeys(i, log) # <<>>
        /\ i \in inv[j].doneAt
        /\ inv[j].pc = "done"
        /\ PressedKeys(j, log) # <<>>

\* C26: every notification is delivered to the callback that is registered at
\* the moment it is delivered, so an observer that set_progress_callback has
\* replaced receives nothing more, not even the "stop" of a run whose "start"
\* it received.
C26_OnlyCurrentObserver ==
    [][\A p \in (Len(log) + 1)..Len(log') :
           log'[p].kind \in {"start", "stop"} => log'[p].to = progress_callback]_vars

\* C26, as far as single statements go: a notification is delivered to the
\* callback the notifier read, which was the registered one when it was read
C26_DeliveredToCallbackRead ==
    /\ [][\A i \in DOMAIN inv :
             (inv[i].pc = "stop" /\ inv'[i].pc = "calling") =>
                 inv'[i].cb = progress_callback]_vars
    /\ [][\A p \in (Len(log) + 1)..Len(log') :
             log'[p].kind = "stop" => log'[p].to = inv[log'[p].inv].cb]_vars
    /\ [][\A p \in (Len(log) + 1)..Len(log') :
             log'[p].kind = "start" => log'[p].to = progress_callback]_vars

\* a worker has read the callback and the callback has been replaced since
C26_ReplacedBetweenReadAndCall ==
    \E i \in DOMAIN inv :
        /\ inv[i].pc = "calling"
        /\ inv[i].cb = Some("ui")
        /\ progress_callback # Some("ui")

\* press and release of every key of seq, in order
RECURSIVE DownUps(_)
DownUps(seq) ==
    IF seq = <<>>
    THEN <<>>
    ELSE <<(<<"press", Head(seq)>>), (<<"release", Head(seq)>>)>> \o DownUps(Tail(seq))

\* the key sequence fixed when run i was triggered
FixedAtTrigger(i) == Sequence(inv[i].macro, inv[i].panel)

\* C27: a run cannot be cancelled.  Whatever clear(), shutdown(),
\* register_macros() and set_auto_panel() do while a worker is inside its run,
\* the worker's key events stay the downs and ups of the sequence fixed at its
\* trigger, in order; its next step is never blocked; it ends only after the
\* last key has been pressed and released, and then emits "stop".
C27_NoCancellation ==
    \A i \in DOMAIN inv :
        LET done == KeyEventsOf(i, log)
            due == DownUps(FixedAtTrigger(i))
        IN  /\ IsPrefix(done, due)
            /\ inv[i].pc \in {"exit", "stop", "done"} => done = due
            /\ inv[i].pc = "done" => Stopped(i)
            /\ inv[i].pc = "press" => ENABLED Press(i)
            /\ inv[i].pc = "release" => ENABLED Release(i)
            /\ inv[i].pc = "exit" => ENABLED Exit(i)
            /\ inv[i].pc = "stop" => ENABLED NotifyStop(i)

\* a run that has pressed and released all of its two keys and emitted "stop"
\* although, while it held the lock, the macros were cleared or replaced and
\* the panel setting changed so that it would now give another sequence
C27_Witness ==
    /\ Len(inv) = 1
    /\ inv[1].pc = "done"
    /\ Stopped(1)
    /\ Len(PressedKeys(1, log)) >= 2
    /\ regs = 3
    /\ \A r \in DOMAIN records : records[r].macro # inv[1].macro
    /\ PanelKeyArg(auto_panel) # inv[1].panel

StartTotal(i) == log[CHOOSE p \in Positions(i, {"start"}) : TRUE].total[1]

\* C30: the panel decision is taken once per trigger.  The number of keys a
\* run presses is the key count behind the total_time of its "start"
\* notification, whatever set_auto_panel stores between the trigger and the
\* run of the worker; a run under way has pressed no more than that.
C30_PanelDecidedOnce ==
    \A i \in DOMAIN inv :
        Started(i) =>
            LET per == inv[i].macro.duration + inv[i].macro.delay
                n == Len(PressedKeys(i, log))
            IN  /\ n * per <= StartTotal(i)
                /\ (inv[i].pc \in {"stop", "done"} /\ ~inv[i].failed) =>
                       n * per = StartTotal(i)

\* a finished run whose trigger and whose worker found different panel
\* settings, one of them with a panel key
C30_Witness ==
    \E i \in DOMAIN inv :
        /\ inv[i].pc = "done"
        /\ inv[i].panel # inv[i].panelAtRun
        /\ Len(PressedKeys(i, log)) >= 2
        /\ Len(PressedKeys(i, log)) * (inv[i].macro.duration + inv[i].macro.delay)
               = StartTotal(i)

\* C28: the held-key test and the recording of the scan code are one atomic
\* step, so "down" events for one scan code that hook threads deliver at the
\* same time dispatch at most one trigger: between two "up" events of a scan
\* code at most one press of it is dispatched.
C28_AtMostOneDispatch == \A sc \in ScanCodes : runs[sc].disp <= 1

\* C28, the step itself: no two hook threads are past the held-key test of
\* one scan code at the same time
C28_TestAndRecordAtomic ==
    \A t, u \in Tested :
        hook_threads[t].e.scan_code = hook_threads[u].e.scan_code => t = u

\* C31: the "stop" of an invocation carries the macro and the slot of its
\* "start", also when the registry and the slot lookup are cleared or rebuilt
\* with another mapping while the run is in flight.
C31_StopCarriesStart ==
    \A i \in DOMAIN inv :
        \A p \in Positions(i, {"stop"}) :
            /\ Started(i)
            /\ \A q \in Positions(i, {"start"}) :
                   /\ q < p
                   /\ log[p].slot = log[q].slot
                   /\ log[p].macro = log[q].macro

\* the only run of the session has emitted its "stop" with the slot of its
\* "start", and the lookup, changed while it ran, now gives its hotkey another
\* slot or none
C31_Witness ==
    /\ Len(inv) = 1
    /\ Stopped(1)
    /\ inv[1].slot # None
    /\ \A p \in Positions(1, {"start", "stop"}) : log[p].slot = inv[1].slot
    /\ SlotOf(slot_hotkey_lookup, inv[1].macro) # inv[1].slot

\* the slot of the entry of batch b that is registered for hotkey: the first
\* entry with that hotkey, case-insensitively
RegisteredSlot(b, hotkey) ==
    b[CHOOSE k \in Kept(b) : Lower(b[k].macro.hotkey) = Lower(hotkey)].slot

SlotsOfRegistered ==
    /\ \A k \in DOMAIN records :
           SlotOf(slot_hotkey_lookup, records[k].macro) =
               Some(RegisteredSlot(lastBatch, records[k].macro.hotkey))
    /\ \A p \in DOMAIN log :
           log[p].kind \in {"start", "stop"} =>
               log[p].slot = Some(RegisteredSlot(lastBatch, inv[log[p].inv].macro.hotkey))

\* C32: the slot lookup gives every registered hotkey the slot of the entry
\* that was registered for it, the first of the batch with that hotkey, and
\* never the slot of a skipped duplicate; the progress events report that slot.
C32_SlotOfRegisteredEntry == SlotsOfRegistered

\* C32 for macro_manager.MacroManager.register_macros, which writes the
\* lookup after its duplicate test
C32_SlotOfRegisteredEntry_mm == impl = "mm" => SlotsOfRegistered

\* a "start" was reported for the macro of slot 8 while slot 9, skipped for
\* having the same hotkey, is absent from the records
C32_DuplicateSkipped ==
    \E p \in DOMAIN log :
        /\ log[p].kind = "start"
        /\ log[p].macro = "B"
        /\ lastBatch[2].macro.hotkey = lastBatch[3].macro.hotkey
        /\ \A k \in DOMAIN records : records[k].macro.name # "C"

\* C33: a worker releases the execution lock before it emits "stop".  The
\* invocation whose "stop" is delivered does not hold the lock, before or after
\* the delivery, and a trigger that arrives once an invocation is at its
\* "stop" or past it never finds the lock held by that invocation.
C33_LockFreeAtStop ==
    /\ [][\A p \in (Len(log) + 1)..Len(log') :
             log'[p].kind = "stop" => lock # log'[p].inv /\ lock' # log'[p].inv]_vars
    /\ [][\A j \in (Len(inv) + 1)..Len(inv') :
             \A i \in DOMAIN inv :
                 inv[i].pc \in {"stop", "done"} => inv'[j].lockedAt # i]_vars

\* main.py: a run played to its end and emitted "stop"; the trigger that came
\* next found the lock free and was launched
C33_Witness ==
    \E i, j \in DOMAIN inv :
        /\ impl = "main"
        /\ ~inv[i].failed
        /\ HasPressed(i)
        /\ Stopped(i)
        /\ i \in inv[j].doneAt
        /\ inv[j].lockedAt = 0
        /\ Started(j)

\* no press hook is subscribed: no macro hotkey can fire
NoHotkeyRegistered == records = <<>> /\ \A h \in hooks : h.kind # "press"

\* C34: whenever the application is not listening the registry holds no
\* records and no press hook is subscribed, so that a "down" event dispatches
\* nothing; also after a capture that finishes once listening was stopped.
C34_NotListeningNothingRegistered ==
    /\ [](~listening => NoHotkeyRegistered)
    /\ [][~listening => Len(inv') = Len(inv)]_vars

\* listening was stopped while a capture was under way, and the capture has
\* finished since: only that call of rebuild_listeners empties the slot lookup
\* of an application that does not listen
C34_Witness ==
    /\ ~listening
    /\ lastBatch # <<>>
    /\ slot_hotkey_lookup = EmptyLookup
    /\ \A w \in Windows : capture_threads[w] = None

\* the settings windows whose capture is active
ActiveCaptures == {w \in Windows : capture_threads[w] # None}

\* C35: while a capture is active no macro hotkey is registered, and at most
\* one capture is active at a time.
C35_CaptureSuspendsListeners ==
    /\ ActiveCaptures # {} => NoHotkeyRegistered
    /\ Cardinality(ActiveCaptures) <= 1

\* C35, the first half alone
C35_NoHotkeyWhileCapturing == ActiveCaptures # {} => NoHotkeyRegistered

\* C35, the second half alone
C35_OneCaptureAtATime == Cardinality(ActiveCaptures) <= 1

\* C35 within one settings window: start_capture returns at once while the
\* window's capturing flag is set, and the flag is set as long as the
\* window's capture worker has not handed over its result
C35_OneCapturePerWindow ==
    /\ \A w \in Windows : capture_threads[w] # None => settings[w].capturing
    /\ [][\A w \in Windows :
             (capture_threads[w] # None /\ capture_threads'[w] # None) =>
                 capture_threads'[w] = capture_threads[w]]_vars

\* C35, the restoring: a capture that began while the application listened,
\* and ends with its window still open and the application still listening,
\* leaves the hotkeys of the batch registered
C35_RestoredWhenWindowOpen ==
    [][\A w \in Windows :
          (/\ capture_threads[w] = Some(TRUE)
           /\ capture_threads'[w] = None
           /\ settings[w].open
           /\ listening) => records' # <<>>]_vars

\* the application listens, the capture of a closed window has ended, and no
\* hotkey is registered
C35_NotRestoredAfterClose ==
    /\ listening
    /\ ActiveCaptures = {}
    /\ lastBatch # <<>>
    /\ records = <<>>


\* C36: resolve_template_keys returns one key per direction of the template, in
\* the order of the directions: the user's binding of the direction when it
\* has one that is not empty, else the default binding, else the direction's
\* name in lower case
C36_ResolvedKeys ==
    call.op = "resolve_template_keys" =>
        LET directions == call.template.directions
            bound == call.direction_keys
        IN /\ Len(call.result) = Len(directions)
           /\ \A i \in 1..Len(directions) :
                 LET d == directions[i]
                 IN call.result[i] =
                       IF d \in DOMAIN bound /\ bound[d] # <<>> THEN bound[d]
                       ELSE IF d \in DOMAIN DEFAULT_DIRECTION_KEYS
                            THEN DEFAULT_DIRECTION_KEYS[d]
                            ELSE Lower(d)

\* a template of three directions resolved through all three ways: a direction
\* the user has bound, one bound to the empty string that has a default, and
\* one with neither binding nor default
C36_Witness ==
    /\ call.op = "resolve_template_keys"
    /\ call.template.directions = <<d_Up, d_Down, <<"H", "o", "l", "d">>>>
    /\ DOMAIN call.direction_keys = {d_Up, d_Down}
    /\ call.direction_keys[d_Up] = <<"w">>
    /\ call.direction_keys[d_Down] = <<>>
    /\ call.result = <<<<"w">>, k_down, <<"h", "o", "l", "d">>>>


\* a string that reads as a number: blanks, an optional sign, digits, blanks
ReadsAsNumber(s) ==
    LET body == Strip(s)
        digits == IF body # <<>> /\ Head(body) \in {"-", "+"} THEN Tail(body) ELSE body
    IN digits # <<>> /\ \A i \in 1..Len(digits) : digits[i] \in DOMAIN Digits

\* a timing value that is no number, or a number below zero
BadTimingValue(x) ==
    \/ x.t \in {"none", "dict"}
    \/ x.t = "str" /\ ~ReadsAsNumber(x.str)
    \/ x.t = "num" /\ x.num < 0
    \/ /\ x.t = "str" /\ ReadsAsNumber(x.str) /\ Head(Strip(x.str)) = "-"
       /\ \E i \in 1..Len(x.str) : x.str[i] \in DOMAIN Digits /\ x.str[i] # "0"

\* a "timing" section with a delay or a duration that is negative or no number
BadTiming(timing) ==
    /\ timing.t = "dict"
    /\ \E k \in {"delay", "duration"} \cap DOMAIN timing.dict : BadTimingValue(timing.dict[k])

Timing(self) == <<self.macro_delay, self.macro_duration>>

\* C37: after any sequence of reset() and apply_profile() calls macro_delay and
\* macro_duration are both at least zero; a profile whose timing section has a
\* negative or non-numeric delay or duration leaves both as they were, and one
\* whose delay and duration are both non-negative numbers sets both
C37_TimingNonNegative ==
    /\ app_state.macro_delay >= 0
    /\ app_state.macro_duration >= 0
    /\ call.op = "apply_profile" /\ BadTiming(call.timing) =>
          Timing(app_state) = call.before
    /\ /\ call.op = "apply_profile" /\ call.raised = None /\ call.timing.t = "dict"
       /\ DOMAIN call.timing.dict = {"delay", "duration"}
       /\ \A k \in {"delay", "duration"} :
             call.timing.dict[k].t = "num" /\ call.timing.dict[k].num >= 0
       => Timing(app_state) = <<call.timing.dict["delay"].num, call.timing.dict["duration"].num>>

\* a profile with a usable delay and a duration that is no number has been
\* applied to a state whose timing an earlier profile had set
C37_Witness ==
    /\ call.op = "apply_profile"
    /\ call.timing.t = "dict"
    /\ DOMAIN call.timing.dict = {"delay", "duration"}
    /\ call.timing.dict["delay"] = Num(70)
    /\ call.timing.dict["duration"].t = "str"
    /\ call.before = <<0, 20>>
    /\ Timing(app_state) = <<0, 20>>

====
